---- MODULE Spec2Model ----
(***************************************************************************)
(* Portfolio-tracking backend: the store of portfolios, portfolio items    *)
(* and asset records, and the GET /api/portfolios/:id/summary handler      *)
(* (src/routes/portfolio.js) that values a ledger of buy/sell              *)
(* transactions against the current asset prices; the statistics handlers *)
(* GET /api/statistics/assets/top and .../users/:userId/monthly-profit     *)
(* (src/routes/statistics.js), the net-worth series of                     *)
(* GET /api/portfolios/:userId/returns, the asset operations               *)
(* (src/routes/assetInfo.js), PortfolioService                             *)
(* (src/services/portfolioService.js, on the tables assets and             *)
(* ProfitLogs), registration, login and the requireAuth and adminOnly      *)
(* middleware (src/routes/user.js), and the dispatch of the portfolios     *)
(* router to its routes in the order they are registered.                  *)
(*                                                                         *)
(* JavaScript numbers are modelled as exact rationals [n, d] with d > 0,   *)
(* extended with the IEEE special values d = 0: n = 1 is Infinity,         *)
(* n = -1 is -Infinity and n = 0 is NaN.  Binary rounding of doubles is    *)
(* not modelled.  DECIMAL columns are stored as scaled integers (the       *)
(* digits of the decimal string) and parseFloat converts them.             *)
(***************************************************************************)
EXTENDS Integers, Sequences, FiniteSets, TLC

(***************************************************************************)
(* Bounds of the model                                                     *)
(***************************************************************************)
\* rows of a ledger that is valued
MaxItems == 3

\* rows of portfolio_item that the requests create
MaxRows == 2

(***************************************************************************)
(* JavaScript number arithmetic                                            *)
(***************************************************************************)
Abs(x) == IF x < 0 THEN -x ELSE x

Sign(x) == IF x < 0 THEN -1 ELSE IF x > 0 THEN 1 ELSE 0

RECURSIVE GCD(_, _)
GCD(a, b) == IF b = 0 THEN a ELSE GCD(b, a % b)

Norm(n, d) ==
    IF d = 0 THEN [n |-> Sign(n), d |-> 0]
    ELSE LET g == GCD(Abs(n), Abs(d))
             s == Sign(d)
         IN  [n |-> s * (n \div g), d |-> s * (d \div g)]

Num(k) == [n |-> k, d |-> 1]

Zero == Num(0)

NaN == [n |-> 0, d |-> 0]

IsNaN(a) == a.d = 0 /\ a.n = 0

IsInf(a) == a.d = 0 /\ a.n # 0

IsFinite(a) == a.d > 0

NumNeg(a) == [n |-> -a.n, d |-> a.d]

NumAdd(a, b) ==
    IF IsNaN(a) \/ IsNaN(b) THEN NaN
    ELSE IF IsInf(a) THEN (IF IsInf(b) /\ b.n # a.n THEN NaN ELSE a)
    ELSE IF IsInf(b) THEN b
    ELSE Norm(a.n * b.d + b.n * a.d, a.d * b.d)

NumSub(a, b) == NumAdd(a, NumNeg(b))

NumMul(a, b) ==
    IF IsNaN(a) \/ IsNaN(b) THEN NaN
    ELSE IF IsInf(a) \/ IsInf(b) THEN Norm(Sign(a.n) * Sign(b.n), 0)
    ELSE Norm(a.n * b.n, a.d * b.d)

NumDiv(a, b) ==
    IF IsNaN(a) \/ IsNaN(b) THEN NaN
    ELSE IF IsInf(a) THEN (IF IsInf(b) THEN NaN
                           ELSE Norm(a.n * (IF b.n < 0 THEN -1 ELSE 1), 0))
    ELSE IF IsInf(b) THEN Zero
    ELSE Norm(a.n * b.d, a.d * b.n)

NumGt(a, b) ==
    IF IsNaN(a) \/ IsNaN(b) THEN FALSE
    ELSE IF IsInf(a) /\ IsInf(b) THEN a.n > b.n
    ELSE a.n * b.d > b.n * a.d

NumLt(a, b) == NumGt(b, a)

NumAbs(a) == [n |-> Abs(a.n), d |-> a.d]

Pow10(k) == IF k = 2 THEN 100 ELSE 10000

\* parseFloat of the string of a DECIMAL(p, scale) column holding `digits`
ParseFloat(digits, scale) == Norm(digits, Pow10(scale))

\* a string of decimal digits with two fraction digits, as its count of
\* hundredths: "18.67" is DecimalString(1867)
DecimalString(h) == [text |-> "decimal", hundredths |-> h]

\* Number.prototype.toFixed(2): the decimal string with two fraction digits,
\* ties rounded away from zero
ToFixed2(a) ==
    IF IsNaN(a) THEN [text |-> "NaN", hundredths |-> 0]
    ELSE IF IsInf(a)
    THEN [text |-> IF a.n > 0 THEN "Infinity" ELSE "-Infinity", hundredths |-> 0]
    ELSE DecimalString(Sign(a.n) * ((200 * Abs(a.n) + a.d) \div (2 * a.d)))

(***************************************************************************)
(* The store: tables portfolios, portfolio_item, asset_info and profit_log *)
(***************************************************************************)
VARIABLES portfolios, items, assets, logs

\* The request GET /api/portfolios/:id/summary in progress, and its response
VARIABLES pc, reqId, reqItems, locals, body

\* The parameters of the statistics request in progress (ctx.query, ctx.params
\* and the clock it reads)
VARIABLES query

\* History: the response of the previous summary request, and whether no
\* write request has been served since the previous, resp. the current,
\* summary request began
VARIABLES prevBody, quietSincePrev, quietSinceCur

\* History: the versions of the store (transactions and assets) that have
\* existed since the summary request in progress began; they are recorded
\* in the behaviours that start with recording set
VARIABLES snapshots, recording

\* The tables of PortfolioService, which reads the models of src/models/index.js:
\* table assets (model Asset) and table ProfitLogs (model ProfitLog)
VARIABLES serviceAssets, profitLogs

\* Table Users, the server's clock in seconds, and (history) the tokens that
\* logins have answered with
VARIABLES users, clock, issued

serviceVars == <<serviceAssets, profitLogs>>

authVars == <<users, clock, issued>>

storeVars == <<portfolios, items, assets, logs, serviceVars, authVars>>

reqVars == <<pc, reqId, reqItems, locals, body, query>>

histVars == <<prevBody, quietSincePrev, quietSinceCur, snapshots, recording>>

vars == <<portfolios, items, assets, logs, pc, reqId, reqItems, locals, body, query,
          prevBody, quietSincePrev, quietSinceCur, snapshots, recording,
          serviceAssets, profitLogs, users, clock, issued>>

\* PortfolioService has stored nothing
NoService ==
    /\ serviceAssets = << >>
    /\ profitLogs = << >>

\* nobody has registered
NoUsers ==
    /\ users = << >>
    /\ clock = 0
    /\ issued = [all |-> {}, last |-> << >>]

None == [status |-> 0]

(***************************************************************************)
(* Inputs of the model                                                     *)
(***************************************************************************)
Codes == {"A", "B"}

AssetTypeOf(code) == IF code = "A" THEN "stock" ELSE "bond"

\* quantity is DECIMAL(18,4), amount is DECIMAL(18,2): 10 units for 100.00,
\* 4 units for 50.00, 6 units for 75.00
Trade10 == [quantity |-> 100000, amount |-> 10000]

Trade4 == [quantity |-> 40000, amount |-> 5000]

Trade6 == [quantity |-> 60000, amount |-> 7500]

\* the 10-unit trades are dated day 1, the others day 2
DateOfTrade(trade) == IF trade = Trade10 THEN 1 ELSE 2

Dates == {1, 2}

\* ctx.params.id: portfolio 1, or an id that no portfolio has
RequestIds == {1, 3}

NewItem(pid, code, type, trade) ==
    [ portfolioId |-> pid, assetCode |-> code, assetType |-> AssetTypeOf(code),
      amount |-> trade.amount, quantity |-> trade.quantity, type |-> type,
      purchaseDate |-> DateOfTrade(trade),
      sellDate |-> IF type = "sell" THEN DateOfTrade(trade) ELSE 0,
      isDeleted |-> FALSE ]

\* the rows a ledger is made of: buys and sells of A and B in portfolio 1,
\* a soft-deleted sell, and a buy that belongs to portfolio 2
ItemInputs ==
    { NewItem(1, "A", "buy", t) : t \in {Trade10, Trade4} }
    \cup { NewItem(1, "A", "sell", t) : t \in {Trade10, Trade4, Trade6} }
    \cup { NewItem(1, "B", "buy", Trade10) }
    \cup { NewItem(1, "B", "sell", Trade4) }
    \cup { [NewItem(1, "A", "sell", Trade4) EXCEPT !.isDeleted = TRUE] }
    \cup { NewItem(2, "A", "buy", Trade4) }

NewAsset(code, price) ==
    [ assetCode |-> code, name |-> code, assetType |-> AssetTypeOf(code),
      price |-> price, isDeleted |-> FALSE ]

(***************************************************************************)
(* GET /api/portfolios/:id/summary: the queries                            *)
(***************************************************************************)
\* rows sorted by purchaseDate, rows of equal date in table order
RECURSIVE SortByDate(_)
SortByDate(rows) ==
    IF rows = << >> THEN << >>
    ELSE LET first == CHOOSE i \in 1..Len(rows) :
                        /\ \A j \in 1..Len(rows) : rows[i].purchaseDate <= rows[j].purchaseDate
                        /\ \A j \in 1..(i-1) : rows[j].purchaseDate > rows[i].purchaseDate
             rest == [j \in 1..(Len(rows) - 1) |-> IF j < first THEN rows[j] ELSE rows[j + 1]]
         IN  <<rows[first]>> \o SortByDate(rest)

\* a variant of FindAllItems: order: [['purchaseDate', 'ASC']]
FindAllItems_ByDate(table, portfolioId) ==
    SortByDate(SelectSeq(table, LAMBDA r : r.portfolioId = portfolioId /\ ~r.isDeleted))

\* PortfolioItem.findAll({ where: { portfolioId, isDeleted: false } }): the
\* rows in table (id) order
FindAllItems(table, portfolioId) ==
    SelectSeq(table, LAMBDA r : r.portfolioId = portfolioId /\ ~r.isDeleted)

\* [...new Set(items.map(item => item.assetCode))]
AssetCodesOf(its) == { its[i].assetCode : i \in 1..Len(its) }

\* a variant of FindAllAssets: the isDeleted filter is missing
FindAllAssets_WithDeleted(table, assetCodes) ==
    SelectSeq(table, LAMBDA r : r.assetCode \in assetCodes)

\* AssetInfo.findAll({ where: { assetCode: assetCodes, isDeleted: false } })
FindAllAssets(table, assetCodes) ==
    SelectSeq(table, LAMBDA r : r.assetCode \in assetCodes /\ ~r.isDeleted)

\* Object.fromEntries(assetInfos.map(a => [a.assetCode, a])): the last row
\* of a code wins
FromEntries(rows) ==
    [ code \in { rows[i].assetCode : i \in 1..Len(rows) } |->
        LET last == CHOOSE i \in 1..Len(rows) :
                        /\ rows[i].assetCode = code
                        /\ \A j \in (i+1)..Len(rows) : rows[j].assetCode # code
        IN  rows[last] ]

(***************************************************************************)
(* GET /api/portfolios/:id/summary: the scan of the items                  *)
(***************************************************************************)
\* a variant of HoldingIndex: one holding is shared by all asset codes
HoldingIndex_Shared(holdings, code) == IF holdings = << >> THEN 0 ELSE 1

\* the index of the holding of `code` in the insertion-ordered holdings, or 0
HoldingIndex(holdings, code) ==
    IF \E i \in 1..Len(holdings) : holdings[i].assetCode = code
    THEN CHOOSE i \in 1..Len(holdings) : holdings[i].assetCode = code
    ELSE 0

NewHolding(item, asset) ==
    [ assetCode |-> item.assetCode, name |-> asset.name,
      assetType |-> item.assetType, quantity |-> Zero, cost |-> Zero,
      avgCost |-> Zero, currentPrice |-> ParseFloat(asset.price, 2),
      marketValue |-> Zero, unrealizedGain |-> Zero, status |-> "closed" ]

\* a variant of SellAvgCost: the guard is h.quantity >= 0
SellAvgCost_GuardGe(h, tradePrice) ==
    IF ~NumLt(h.quantity, Zero) /\ ~IsNaN(h.quantity)
    THEN NumDiv(h.cost, h.quantity) ELSE tradePrice

\* const avgCost = h.quantity > 0 ? h.cost / h.quantity : tradePrice
SellAvgCost(h, tradePrice) ==
    IF NumGt(h.quantity, Zero) THEN NumDiv(h.cost, h.quantity) ELSE tradePrice

\* a variant of ApplyBuy: the cost is overwritten instead of accumulated
ApplyBuy_Overwrite(h, tradeQty, tradeAmount) ==
    [h EXCEPT !.quantity = NumAdd(h.quantity, tradeQty),
              !.cost = tradeAmount]

\* the buy branch
ApplyBuy(h, tradeQty, tradeAmount) ==
    [h EXCEPT !.quantity = NumAdd(h.quantity, tradeQty),
              !.cost = NumAdd(h.cost, tradeAmount)]

\* a variant of ApplySell: the cost is reduced by the proceeds of the sale
ApplySell_Proceeds(h, tradeQty, tradePrice) ==
    [h EXCEPT !.quantity = NumSub(h.quantity, tradeQty),
              !.cost = NumSub(h.cost, NumMul(tradePrice, tradeQty))]

\* a variant of ApplySell: a sell never takes the quantity below zero
ApplySell_Floor(h, tradeQty, tradePrice) ==
    LET avgCost == SellAvgCost(h, tradePrice)
        left == NumSub(h.quantity, tradeQty)
    IN  [h EXCEPT !.quantity = IF NumLt(left, Zero) THEN Zero ELSE left,
                  !.cost = NumSub(h.cost, NumMul(avgCost, tradeQty))]

\* the sell branch: the holding after the sell
ApplySell(h, tradeQty, tradePrice) ==
    LET avgCost == SellAvgCost(h, tradePrice)
    IN  [h EXCEPT !.quantity = NumSub(h.quantity, tradeQty),
                  !.cost = NumSub(h.cost, NumMul(avgCost, tradeQty))]

\* the sell branch: realizedGain += (tradePrice - avgCost) * tradeQty
SellGain(h, tradeQty, tradePrice) ==
    NumMul(NumSub(tradePrice, SellAvgCost(h, tradePrice)), tradeQty)

\* a variant of EmptyScan: realizedGain is a module-level accumulator that
\* keeps the value the previous request left
EmptyScan_Leftover ==
    [ holdings |-> << >>,
      realizedGain |-> IF prevBody.status = 200 THEN prevBody.realizedGain ELSE Zero ]

\* const holdings = {}; let realizedGain = 0
EmptyScan == [holdings |-> << >>, realizedGain |-> Zero]

\* the callback of items.forEach: st is [holdings, realizedGain]
ApplyItem(st, item, assetMap) ==
    IF item.assetCode \notin DOMAIN assetMap THEN st
    ELSE
      LET asset == assetMap[item.assetCode]
          tradeQty == ParseFloat(item.quantity, 4)
          tradeAmount == ParseFloat(item.amount, 2)
          tradePrice == NumDiv(tradeAmount, tradeQty)
          hs == IF HoldingIndex(st.holdings, item.assetCode) = 0
                THEN Append(st.holdings, NewHolding(item, asset))
                ELSE st.holdings
          k == HoldingIndex(hs, item.assetCode)
          h == hs[k]
      IN  IF item.type = "buy"
          THEN [st EXCEPT !.holdings = [hs EXCEPT ![k] = ApplyBuy(h, tradeQty, tradeAmount)]]
          ELSE IF item.type = "sell"
          THEN [ holdings |-> [hs EXCEPT ![k] = ApplySell(h, tradeQty, tradePrice)],
                 realizedGain |-> NumAdd(st.realizedGain, SellGain(h, tradeQty, tradePrice)) ]
          ELSE [st EXCEPT !.holdings = hs]

\* the state of the scan after the first k items
RECURSIVE ScanItems(_, _, _)
ScanItems(its, assetMap, k) ==
    IF k = 0 THEN EmptyScan
    ELSE ApplyItem(ScanItems(its, assetMap, k - 1), its[k], assetMap)

(***************************************************************************)
(* GET /api/portfolios/:id/summary: classification and totals              *)
(***************************************************************************)
\* a variant of ClassifyHolding: a quantity of 0 takes the long branch
ClassifyHolding_GeLong(h) ==
    IF ~NumLt(h.quantity, Zero) /\ ~IsNaN(h.quantity)
    THEN LET avg == NumDiv(h.cost, h.quantity)
         IN  [h EXCEPT !.status = "long", !.avgCost = avg,
                       !.marketValue = NumMul(h.quantity, h.currentPrice),
                       !.unrealizedGain = NumMul(NumSub(h.currentPrice, avg), h.quantity)]
    ELSE LET avg == NumDiv(h.cost, h.quantity)
         IN  [h EXCEPT !.status = "short", !.avgCost = avg,
                       !.marketValue = NumMul(h.quantity, h.currentPrice),
                       !.unrealizedGain = NumMul(NumSub(avg, h.currentPrice), NumAbs(h.quantity))]

\* a variant of ClassifyHolding: there is no short branch, a negative
\* quantity is reported as closed
ClassifyHolding_NoShort(h) ==
    IF NumGt(h.quantity, Zero)
    THEN LET avg == NumDiv(h.cost, h.quantity)
         IN  [h EXCEPT !.status = "long", !.avgCost = avg,
                       !.marketValue = NumMul(h.quantity, h.currentPrice),
                       !.unrealizedGain = NumMul(NumSub(h.currentPrice, avg), h.quantity)]
    ELSE [h EXCEPT !.status = "closed", !.avgCost = Zero,
                   !.marketValue = Zero, !.unrealizedGain = Zero]

\* the body of the loop `for (const code in holdings)`
ClassifyHolding(h) ==
    IF NumGt(h.quantity, Zero)
    THEN LET avg == NumDiv(h.cost, h.quantity)
         IN  [h EXCEPT !.status = "long", !.avgCost = avg,
                       !.marketValue = NumMul(h.quantity, h.currentPrice),
                       !.unrealizedGain = NumMul(NumSub(h.currentPrice, avg), h.quantity)]
    ELSE IF NumLt(h.quantity, Zero)
    THEN LET avg == NumDiv(h.cost, h.quantity)
         IN  [h EXCEPT !.status = "short", !.avgCost = avg,
                       !.marketValue = NumMul(h.quantity, h.currentPrice),
                       !.unrealizedGain = NumMul(NumSub(avg, h.currentPrice), NumAbs(h.quantity))]
    ELSE [h EXCEPT !.status = "closed", !.avgCost = Zero,
                   !.marketValue = Zero, !.unrealizedGain = Zero]

\* does the loop add this holding to totalValue and unrealizedGain
IsOpen(h) == NumGt(h.quantity, Zero) \/ NumLt(h.quantity, Zero)

\* a variant of ClassifyAll: only long holdings are added to the totals
RECURSIVE ClassifyAll_LongOnly(_, _)
ClassifyAll_LongOnly(holdings, k) ==
    IF k = 0 THEN [holdings |-> holdings, totalValue |-> Zero, unrealizedGain |-> Zero]
    ELSE LET prev == ClassifyAll_LongOnly(holdings, k - 1)
             h == ClassifyHolding(holdings[k])
         IN  [ holdings |-> [prev.holdings EXCEPT ![k] = h],
               totalValue |-> IF NumGt(holdings[k].quantity, Zero)
                              THEN NumAdd(prev.totalValue, h.marketValue)
                              ELSE prev.totalValue,
               unrealizedGain |-> IF NumGt(holdings[k].quantity, Zero)
                                  THEN NumAdd(prev.unrealizedGain, h.unrealizedGain)
                                  ELSE prev.unrealizedGain ]

\* the loop over the first k holdings: [holdings, totalValue, unrealizedGain]
RECURSIVE ClassifyAll(_, _)
ClassifyAll(holdings, k) ==
    IF k = 0 THEN [holdings |-> holdings, totalValue |-> Zero, unrealizedGain |-> Zero]
    ELSE LET prev == ClassifyAll(holdings, k - 1)
             h == ClassifyHolding(holdings[k])
         IN  [ holdings |-> [prev.holdings EXCEPT ![k] = h],
               totalValue |-> IF IsOpen(holdings[k])
                              THEN NumAdd(prev.totalValue, h.marketValue)
                              ELSE prev.totalValue,
               unrealizedGain |-> IF IsOpen(holdings[k])
                                  THEN NumAdd(prev.unrealizedGain, h.unrealizedGain)
                                  ELSE prev.unrealizedGain ]

\* h.quantity !== 0
QuantityNonZero(h) == ~(IsFinite(h.quantity) /\ h.quantity.n = 0)

\* Object.values(holdings).filter(h => h.quantity !== 0)
\*     .reduce((sum, h) => sum + Math.abs(h.cost), 0)
RECURSIVE TotalCost(_, _)
TotalCost(holdings, k) ==
    IF k = 0 THEN Zero
    ELSE IF QuantityNonZero(holdings[k])
         THEN NumAdd(TotalCost(holdings, k - 1), NumAbs(holdings[k].cost))
         ELSE TotalCost(holdings, k - 1)

\* a variant of TotalGainPercent: the guard totalCost > 0 is missing
TotalGainPercent_NoGuard(totalGain, totalCost) ==
    ToFixed2(NumMul(NumDiv(totalGain, totalCost), Num(100)))

\* totalCost > 0 ? ((totalGain / totalCost) * 100).toFixed(2) : "0.00"
TotalGainPercent(totalGain, totalCost) ==
    IF NumGt(totalCost, Zero)
    THEN ToFixed2(NumMul(NumDiv(totalGain, totalCost), Num(100)))
    ELSE DecimalString(0)

\* Object.values(holdings).filter(h => h.quantity > 0).length
AssetCount(holdings) ==
    Cardinality({ i \in 1..Len(holdings) : NumGt(holdings[i].quantity, Zero) })

\* the locals of the handler once it has computed everything
Valuation(its, assetMap) ==
    LET scan == ScanItems(its, assetMap, Len(its))
        cls == ClassifyAll(scan.holdings, Len(scan.holdings))
        totalGain == NumAdd(scan.realizedGain, cls.unrealizedGain)
        totalCost == TotalCost(cls.holdings, Len(cls.holdings))
    IN  [ holdings |-> cls.holdings,
          realizedGain |-> scan.realizedGain,
          unrealizedGain |-> cls.unrealizedGain,
          totalValue |-> cls.totalValue,
          totalGain |-> totalGain,
          totalCost |-> totalCost,
          totalGainPercent |-> TotalGainPercent(totalGain, totalCost),
          assetCount |-> AssetCount(cls.holdings),
          assetMap |-> assetMap ]

\* ctx.body of the summary
SummaryBody(portfolioId, v) ==
    [ status |-> 200, portfolioId |-> portfolioId, totalValue |-> v.totalValue,
      realizedGain |-> v.realizedGain, unrealizedGain |-> v.unrealizedGain,
      totalGain |-> v.totalGain, totalGainPercent |-> v.totalGainPercent,
      assetCount |-> v.assetCount, holdings |-> v.holdings ]

\* the response of the handler when the three queries read the same tables
Summary(itemTable, assetTable, portfolioId) ==
    LET its == FindAllItems(itemTable, portfolioId)
        assetInfos == FindAllAssets(assetTable, AssetCodesOf(its))
    IN  SummaryBody(portfolioId, Valuation(its, FromEntries(assetInfos)))

(***************************************************************************)
(* GET /api/portfolios/:id/summary: the handler.  It awaits three queries  *)
(* (other requests may run at each await) and then computes the response   *)
(* without suspending.                                                     *)
(***************************************************************************)
\* the transactions and the assets as they are in the store now
StoreVersion == [items |-> items, assets |-> assets]

\* Portfolio.findByPk(portfolioId)
FindByPk(table, id) == { i \in 1..Len(table) : table[i].id = id }

\* const portfolio = await Portfolio.findByPk(portfolioId);
\* if (!portfolio) ctx.throw(404, 'Portfolio not found')
SummaryFindPortfolio(id) ==
    /\ pc = "idle"
    /\ reqId' = id
    /\ IF FindByPk(portfolios, id) = {}
       THEN /\ pc' = "done"
            /\ body' = [status |-> 404]
       ELSE /\ pc' = "findItems"
            /\ body' = None
    /\ quietSincePrev' = quietSinceCur
    /\ quietSinceCur' = TRUE
    /\ snapshots' = IF recording THEN {StoreVersion} ELSE {}
    /\ UNCHANGED <<reqItems, locals, query, prevBody, recording>>
    /\ UNCHANGED storeVars

\* const items = await PortfolioItem.findAll(...)
SummaryFindItems ==
    /\ pc = "findItems"
    /\ reqItems' = FindAllItems(items, reqId)
    /\ pc' = "findAssets"
    /\ UNCHANGED <<reqId, locals, body, query>>
    /\ UNCHANGED histVars
    /\ UNCHANGED storeVars

\* const assetInfos = await AssetInfo.findAll(...) and the rest of the handler
SummaryRespond ==
    /\ pc = "findAssets"
    /\ LET assetInfos == FindAllAssets(assets, AssetCodesOf(reqItems))
           assetMap == FromEntries(assetInfos)
           v == Valuation(reqItems, assetMap)
       IN  /\ locals' = v
           /\ body' = SummaryBody(reqId, v)
    /\ pc' = "done"
    /\ UNCHANGED <<reqId, reqItems, query>>
    /\ UNCHANGED histVars
    /\ UNCHANGED storeVars

\* the response has been sent; the server waits for the next summary request
SummaryClose ==
    /\ pc = "done"
    /\ pc' = "idle"
    /\ prevBody' = body
    /\ body' = None
    /\ snapshots' = {}
    /\ UNCHANGED <<reqId, reqItems, locals, query, quietSincePrev, quietSinceCur, recording>>
    /\ UNCHANGED storeVars

(***************************************************************************)
(* The valuation of a given ledger against a given asset table             *)
(***************************************************************************)
NoLocals == [assetMap |-> << >>]

PortfolioRow(id) == [id |-> id, userId |-> 1, name |-> "P", isDeleted |-> FALSE]

\* the ledgers: up to MaxItems rows of portfolio_item, ids in insertion order
Ledgers == UNION { [1..n -> ItemInputs] : n \in 0..MaxItems }

\* the asset tables: A is listed at 12.00 or at 9.00 (or has a row of each),
\* B is absent, listed at 15.00, or soft-deleted
AssetTables ==
    { <<NewAsset("A", pa)>> : pa \in {1200, 900} }
    \cup { <<NewAsset("A", 900), NewAsset("A", 1200)>> }
    \cup { <<NewAsset("A", 1200), [NewAsset("B", 1500) EXCEPT !.isDeleted = del]>> :
             del \in BOOLEAN }

InitValuation ==
    /\ portfolios = <<PortfolioRow(1), PortfolioRow(2)>>
    /\ items \in Ledgers
    /\ assets \in AssetTables
    /\ logs = << >>
    /\ NoService
    /\ NoUsers
    /\ pc = "idle"
    /\ query = None
    /\ reqId = 0
    /\ reqItems = << >>
    /\ locals = NoLocals
    /\ body = None
    /\ prevBody = None
    /\ quietSincePrev = TRUE
    /\ quietSinceCur = TRUE
    /\ snapshots = {}
    /\ recording = FALSE

NextValuation ==
    \/ \E id \in RequestIds : SummaryFindPortfolio(id)
    \/ SummaryFindItems
    \/ SummaryRespond

SpecValuation == InitValuation /\ [][NextValuation]_vars

(***************************************************************************)
(* The server: requests that create or soft-delete portfolio items and     *)
(* update or soft-delete assets, interleaved                               *)
(* with summary requests.  A row's id is its position in its table: ids    *)
(* are AUTO_INCREMENT and rows are only ever soft-deleted.                 *)
(***************************************************************************)
\* the bodies of POST /api/portfolio-items/create
CreateInputs ==
    { NewItem(1, "A", "buy", Trade10), NewItem(1, "A", "sell", Trade4),
      NewItem(1, "B", "buy", Trade10) }

\* the prices of POST /api/assets/update/:id
PriceInputs == { 900, 1200 }

\* a write request has been served; the store it leaves is one more version
\* for the summary request in progress, if there is one
Written ==
    /\ quietSincePrev' = FALSE
    /\ quietSinceCur' = FALSE
    /\ snapshots' = IF recording /\ pc \in {"findItems", "findAssets"}
                    THEN snapshots \cup {StoreVersion'}
                    ELSE snapshots
    /\ UNCHANGED <<prevBody, recording>>
    /\ UNCHANGED reqVars

\* POST /api/portfolio-items/create
CreateItem(input) ==
    /\ Len(items) < MaxRows
    /\ items' = Append(items, input)
    /\ UNCHANGED <<portfolios, assets, logs, serviceVars, authVars>>
    /\ Written

\* POST /api/portfolio-items/delete/:id
DeleteItem(id) ==
    /\ id \in 1..Len(items)
    /\ items' = [items EXCEPT ![id].isDeleted = TRUE]
    /\ UNCHANGED <<portfolios, assets, logs, serviceVars, authVars>>
    /\ Written

\* POST /api/assets/update/:id with a new price
UpdateAsset(id, price) ==
    /\ id \in 1..Len(assets)
    /\ assets' = [assets EXCEPT ![id].price = price]
    /\ UNCHANGED <<portfolios, items, logs, serviceVars, authVars>>
    /\ Written

\* POST /api/assets/delete/:id
DeleteAsset(id) ==
    /\ id \in 1..Len(assets)
    /\ assets' = [assets EXCEPT ![id].isDeleted = TRUE]
    /\ UNCHANGED <<portfolios, items, logs, serviceVars, authVars>>
    /\ Written

\* the store once the portfolios and the assets A (12.00) and B (15.00)
\* exist, before any transaction is recorded
Init ==
    /\ portfolios = <<PortfolioRow(1), PortfolioRow(2)>>
    /\ items = << >>
    /\ assets = <<NewAsset("A", 1200), NewAsset("B", 1500)>>
    /\ logs = << >>
    /\ NoService
    /\ NoUsers
    /\ pc = "idle"
    /\ query = None
    /\ reqId = 0
    /\ reqItems = << >>
    /\ locals = NoLocals
    /\ body = None
    /\ prevBody = None
    /\ quietSincePrev = TRUE
    /\ quietSinceCur = TRUE
    /\ snapshots = {}
    /\ recording = FALSE

\* the write requests update the price of asset 1 (A) and delete asset 2 (B)
Next ==
    \/ \E input \in CreateInputs : CreateItem(input)
    \/ \E id \in 1..MaxRows : DeleteItem(id)
    \/ \E price \in PriceInputs : UpdateAsset(1, price)
    \/ DeleteAsset(2)
    \/ \E id \in RequestIds : SummaryFindPortfolio(id)
    \/ SummaryFindItems
    \/ SummaryRespond
    \/ SummaryClose

Spec == Init /\ [][Next]_vars

(***************************************************************************)
(* The server with the history of the store recorded during the summary    *)
(* request: the same requests, the transactions being purchases of A       *)
(***************************************************************************)
InitSnapshot ==
    /\ portfolios = <<PortfolioRow(1), PortfolioRow(2)>>
    /\ items = << >>
    /\ assets = <<NewAsset("A", 1200), NewAsset("B", 1500)>>
    /\ logs = << >>
    /\ NoService
    /\ NoUsers
    /\ pc = "idle"
    /\ query = None
    /\ reqId = 0
    /\ reqItems = << >>
    /\ locals = NoLocals
    /\ body = None
    /\ prevBody = None
    /\ quietSincePrev = TRUE
    /\ quietSinceCur = TRUE
    /\ snapshots = {}
    /\ recording = TRUE

NextSnapshot ==
    \/ CreateItem(NewItem(1, "A", "buy", Trade10))
    \/ \E id \in 1..MaxRows : DeleteItem(id)
    \/ \E price \in PriceInputs : UpdateAsset(1, price)
    \/ SummaryFindPortfolio(1)
    \/ SummaryFindItems
    \/ SummaryRespond

SpecSnapshot == InitSnapshot /\ [][NextSnapshot]_vars

(***************************************************************************)
(* Properties of the summary                                               *)
(***************************************************************************)
\* the handler has answered with a summary
Responded == pc = "done" /\ body.status = 200

\* the holdings and realizedGain after the first k items of the request
ScanAt(k) == ScanItems(reqItems, locals.assetMap, k)

Priced(item) == item.assetCode \in DOMAIN locals.assetMap

RECURSIVE SumAmounts(_, _)
SumAmounts(its, k) ==
    IF k = 0 THEN Zero
    ELSE NumAdd(SumAmounts(its, k - 1), ParseFloat(its[k].amount, 2))

RECURSIVE SumQuantities(_, _)
SumQuantities(its, k) ==
    IF k = 0 THEN Zero
    ELSE NumAdd(SumQuantities(its, k - 1), ParseFloat(its[k].quantity, 4))

C2_BuysOfOneAsset ==
    Responded =>
      \A c \in Codes :
        ( /\ reqItems # << >>
          /\ \A k \in 1..Len(reqItems) :
               reqItems[k].type = "buy" /\ reqItems[k].assetCode = c
          /\ c \in DOMAIN locals.assetMap ) =>
        /\ locals.realizedGain = Zero
        /\ locals.totalCost = SumAmounts(reqItems, Len(reqItems))
        /\ Len(locals.holdings) = 1
        /\ locals.holdings[1].marketValue =
             NumMul(SumQuantities(reqItems, Len(reqItems)),
                    ParseFloat(locals.assetMap[c].price, 2))

\* two buys of A, 10 for 100 and 4 for 50, with A listed at 12.00, and a
\* soft-deleted sell between them
C2_Witness ==
    /\ Responded
    /\ Len(items) = 3 /\ items[2].type = "sell" /\ items[2].isDeleted
    /\ reqItems = <<NewItem(1, "A", "buy", Trade10), NewItem(1, "A", "buy", Trade4)>>
    /\ locals.assetMap["A"].price = 1200
    /\ locals.totalCost = Num(150)
    /\ locals.holdings[1].marketValue = Num(168)

\* C3: a sell on a holding whose running quantity is <= 0 (or that has no
\* earlier transaction) adds 0 to realizedGain, reduces the cost by its own
\* amount and produces no Infinity or NaN
C3_SellOnEmptyHolding ==
    Responded =>
      \A k \in 1..Len(reqItems) :
        LET item == reqItems[k]
            before == ScanAt(k - 1)
            after == ScanAt(k)
            i == HoldingIndex(before.holdings, item.assetCode)
            cost == IF i = 0 THEN Zero ELSE before.holdings[i].cost
        IN  ( /\ item.type = "sell"
              /\ Priced(item)
              /\ (i = 0 \/ ~NumGt(before.holdings[i].quantity, Zero)) ) =>
            LET h2 == after.holdings[HoldingIndex(after.holdings, item.assetCode)]
            IN  /\ after.realizedGain = before.realizedGain
                /\ IsFinite(after.realizedGain)
                /\ h2.cost = NumSub(cost, ParseFloat(item.amount, 2))
                /\ IsFinite(h2.quantity)

\* buy 4, sell 4, sell 6: the second sell finds the quantity at 0
C3_Witness ==
    /\ Responded
    /\ reqItems = << NewItem(1, "A", "buy", Trade4), NewItem(1, "A", "sell", Trade4),
                     NewItem(1, "A", "sell", Trade6) >>
    /\ ScanAt(2).holdings[1].quantity = Zero
    /\ locals.realizedGain = Zero
    /\ locals.holdings[1].quantity = Num(-6)
    /\ locals.holdings[1].cost = Num(-75)

\* C4: the status of a holding follows the sign of its quantity, and its
\* derived fields follow the status
C4_StatusBySign ==
    Responded =>
      \A i \in 1..Len(body.holdings) :
        LET h == body.holdings[i]
        IN  /\ NumGt(h.quantity, Zero) =>
                 /\ h.status = "long"
                 /\ h.marketValue = NumMul(h.quantity, h.currentPrice)
                 /\ h.unrealizedGain =
                      NumMul(NumSub(h.currentPrice, h.avgCost), h.quantity)
            /\ NumLt(h.quantity, Zero) =>
                 /\ h.status = "short"
                 /\ h.marketValue = NumMul(h.quantity, h.currentPrice)
                 /\ NumLt(h.marketValue, Zero)
                 /\ h.unrealizedGain =
                      NumMul(NumSub(h.avgCost, h.currentPrice), NumAbs(h.quantity))
            /\ h.quantity = Zero =>
                 /\ h.status = "closed"
                 /\ h.avgCost = Zero
                 /\ h.marketValue = Zero
                 /\ h.unrealizedGain = Zero

\* sell 4 of B (listed at 15.00) without a buy, then buy 10 of A (at 12.00)
C4_Witness ==
    /\ Responded
    /\ Len(body.holdings) = 2
    /\ body.holdings[1].status = "short"
    /\ body.holdings[1].avgCost = Norm(25, 2)
    /\ body.holdings[1].marketValue = Num(-60)
    /\ body.holdings[1].unrealizedGain = Num(-10)
    /\ body.holdings[2].status = "long"
    /\ body.holdings[2].marketValue = Num(120)
    /\ body.holdings[2].unrealizedGain = Num(20)

\* the rows of a ledger that refer to, or do not refer to, an asset code
ItemsOfCode(its, c) == SelectSeq(its, LAMBDA r : r.assetCode = c)

ItemsNotOfCode(its, c) == SelectSeq(its, LAMBDA r : r.assetCode # c)

\* buys followed by sells of the same total quantity
BuysThenEqualSells(its) ==
    \E m \in 1..(Len(its) - 1) :
      /\ \A k \in 1..m : its[k].type = "buy"
      /\ \A k \in (m + 1)..Len(its) : its[k].type = "sell"
      /\ SumQuantities(SubSeq(its, 1, m), m) =
           SumQuantities(SubSeq(its, m + 1, Len(its)), Len(its) - m)

NonDeletedCodes(table) ==
    { table[i].assetCode : i \in { j \in 1..Len(table) : ~table[j].isDeleted } }

\* C6: the transactions of an asset code without a non-deleted asset row
\* are skipped: the request is answered with a summary, there is no holding
\* of that code and the totals are those of the ledger without them
C6_MissingAssetSkipped ==
    (pc = "done" /\ FindByPk(portfolios, reqId) # {}) =>
      /\ body.status = 200
      /\ \A c \in AssetCodesOf(reqItems) \ NonDeletedCodes(assets) :
           LET rest == Valuation(ItemsNotOfCode(reqItems, c), locals.assetMap)
           IN  /\ HoldingIndex(body.holdings, c) = 0
               /\ body.realizedGain = rest.realizedGain
               /\ body.unrealizedGain = rest.unrealizedGain
               /\ body.totalValue = rest.totalValue
               /\ locals.totalCost = rest.totalCost

\* B is soft-deleted: buy 10 of B, buy 10 of A, sell 4 of B
C6_Witness ==
    /\ Responded
    /\ Len(assets) = 2 /\ assets[2].assetCode = "B" /\ assets[2].isDeleted
    /\ reqItems = << NewItem(1, "B", "buy", Trade10), NewItem(1, "A", "buy", Trade10),
                     NewItem(1, "B", "sell", Trade4) >>
    /\ Len(body.holdings) = 1
    /\ body.holdings[1].assetCode = "A"
    /\ body.realizedGain = Zero
    /\ locals.totalCost = Num(100)

RECURSIVE SumMarketValue(_, _)
SumMarketValue(holdings, k) ==
    IF k = 0 THEN Zero
    ELSE IF holdings[k].quantity # Zero
         THEN NumAdd(SumMarketValue(holdings, k - 1), holdings[k].marketValue)
         ELSE SumMarketValue(holdings, k - 1)

RECURSIVE SumUnrealizedGain(_, _)
SumUnrealizedGain(holdings, k) ==
    IF k = 0 THEN Zero
    ELSE IF holdings[k].quantity # Zero
         THEN NumAdd(SumUnrealizedGain(holdings, k - 1), holdings[k].unrealizedGain)
         ELSE SumUnrealizedGain(holdings, k - 1)

RECURSIVE SumAbsCost(_, _)
SumAbsCost(holdings, k) ==
    IF k = 0 THEN Zero
    ELSE IF holdings[k].quantity # Zero
         THEN NumAdd(SumAbsCost(holdings, k - 1), NumAbs(holdings[k].cost))
         ELSE SumAbsCost(holdings, k - 1)

\* C7: totalValue and unrealizedGain are the sums of marketValue and
\* unrealizedGain over the holdings of non-zero quantity, and totalGain is
\* realizedGain + unrealizedGain
C7_Totals ==
    Responded =>
      /\ body.totalValue = SumMarketValue(body.holdings, Len(body.holdings))
      /\ body.unrealizedGain = SumUnrealizedGain(body.holdings, Len(body.holdings))
      /\ body.totalGain = NumAdd(body.realizedGain, body.unrealizedGain)

\* a short holding and a long one, and a realized gain
C7_Witness ==
    /\ Responded
    /\ Len(body.holdings) = 2
    /\ NumLt(body.holdings[1].quantity, Zero)
    /\ NumGt(body.holdings[2].quantity, Zero)
    /\ NumLt(body.holdings[1].marketValue, Zero)
    /\ body.totalValue = NumAdd(body.holdings[1].marketValue, body.holdings[2].marketValue)
    /\ body.realizedGain # Zero
    /\ body.unrealizedGain # Zero

\* the number that a totalGainPercent string denotes
PercentValue(p) ==
    IF p.text = "decimal" THEN ParseFloat(p.hundredths, 2)
    ELSE IF p.text = "Infinity" THEN Norm(1, 0)
    ELSE IF p.text = "-Infinity" THEN Norm(-1, 0)
    ELSE NaN

\* totalGain / totalCost * 100
ExactPercent == NumMul(NumDiv(body.totalGain, locals.totalCost), Num(100))

\* C8 as stated: totalGainPercent equals totalGain / totalCost * 100, and 0
\* when totalCost is 0
C8_ExactPercent ==
    Responded =>
      /\ locals.totalCost = SumAbsCost(body.holdings, Len(body.holdings))
      /\ IF locals.totalCost = Zero
         THEN body.totalGainPercent = DecimalString(0)
         ELSE PercentValue(body.totalGainPercent) = ExactPercent

\* C8 amended: totalGainPercent is a decimal string of two fraction digits
\* within 0.005 of totalGain / totalCost * 100, where totalCost is the sum of
\* |cost| over the holdings of non-zero quantity, and "0.00" when totalCost
\* is 0
C8_RoundedPercent ==
    Responded =>
      /\ locals.totalCost = SumAbsCost(body.holdings, Len(body.holdings))
      /\ IF locals.totalCost = Zero
         THEN body.totalGainPercent = DecimalString(0)
         ELSE LET err == NumSub(PercentValue(body.totalGainPercent), ExactPercent)
              IN  /\ body.totalGainPercent.text = "decimal"
                  /\ ~NumGt(NumAbs(err), Norm(1, 200))

\* buy 4 for 50, buy 10 for 100, sell 4 for 50, A at 12.00: totalGain 20 on
\* a cost of 750/7 is 18.666...%, reported as "18.67"
C8_Witness ==
    /\ Responded
    /\ reqItems = << NewItem(1, "A", "buy", Trade4), NewItem(1, "A", "buy", Trade10),
                     NewItem(1, "A", "sell", Trade4) >>
    /\ body.totalGain = Num(20)
    /\ locals.totalCost = Norm(750, 7)
    /\ body.totalGainPercent = DecimalString(1867)

\* the rows of a table with purchaseDate and sellDate replaced by f
Redate(table, f) ==
    [ k \in 1..Len(table) |->
        [table[k] EXCEPT !.purchaseDate = f[k],
                         !.sellDate = IF table[k].type = "sell" THEN f[k] ELSE 0] ]

\* C10: the response is that of every ledger with the same transactions in
\* the same order and other trade dates
C10_DatesIgnored ==
    Responded =>
      \A f \in [1..Len(items) -> Dates] :
        Summary(Redate(items, f), assets, reqId) = body

\* sell 4 of A dated day 2 stored before buy 10 of A dated day 1: the sell
\* is processed first and realizes nothing
C10_Witness ==
    /\ Responded
    /\ reqItems = <<NewItem(1, "A", "sell", Trade4), NewItem(1, "A", "buy", Trade10)>>
    /\ reqItems[1].sellDate > reqItems[2].purchaseDate
    /\ body.realizedGain = Zero
    /\ body.holdings[1].quantity = Num(6)
    /\ body.holdings[1].cost = Num(50)

C11_ConsistentSnapshot ==
    (Responded /\ recording) =>
        \E s \in snapshots : body = Summary(s.items, s.assets, reqId)

(***************************************************************************)
(* GET /api/statistics/assets/top                                          *)
(***************************************************************************)
MaxAssets == 3

\* limit when the query gives none
DefaultLimit == 5

\* a JSON column: null, or an array
JsonNull == [isNull |-> TRUE, value |-> << >>]

JsonArray(a) == [isNull |-> FALSE, value |-> a]

\* asset.historyPriceArr || []
OrEmptyArray(j) == IF j.isNull THEN << >> ELSE j.value

\* a handler that has not begun, and no history
IdleRequest ==
    /\ pc = "idle"
    /\ reqId = 0
    /\ reqItems = << >>
    /\ locals = NoLocals
    /\ body = None

NoHistory ==
    /\ prevBody = None
    /\ quietSincePrev = TRUE
    /\ quietSinceCur = TRUE
    /\ snapshots = {}
    /\ recording = FALSE

\* Number.prototype.toFixed(4): the decimal string with four fraction digits
ToFixed4(a) ==
    IF IsNaN(a) THEN [text |-> "NaN", tenThousandths |-> 0]
    ELSE IF IsInf(a)
    THEN [text |-> IF a.n > 0 THEN "Infinity" ELSE "-Infinity", tenThousandths |-> 0]
    ELSE [text |-> "decimal",
          tenThousandths |-> Sign(a.n) * ((20000 * Abs(a.n) + a.d) \div (2 * a.d))]

\* parseFloat of the string that toFixed(4) gave
ParseFloatFixed4(str) ==
    IF str.text = "NaN" THEN NaN
    ELSE IF str.text = "Infinity" THEN Norm(1, 0)
    ELSE IF str.text = "-Infinity" THEN Norm(-1, 0)
    ELSE ParseFloat(str.tenThousandths, 4)

\* a query parameter: absent, or the text of an integer
AbsentText == [defined |-> FALSE, int |-> 0]

IntText(k) == [defined |-> TRUE, int |-> k]

\* parseInt(ctx.query.limit)
ParseInt(q) == IF q.defined THEN Num(q.int) ELSE NaN

\* x || d for a number x: d when x is NaN or 0
OrDefault(x, d) == IF IsNaN(x) \/ x = Zero THEN d ELSE x

\* (prices[prices.length - 1] / prices[0]) - 1
Growth(prices) == NumSub(NumDiv(prices[Len(prices)], prices[1]), Num(1))

\* the record pushed for an asset
TopRecord(asset) ==
    [ assetCode |-> asset.assetCode, name |-> asset.name, price |-> asset.price,
      growth |-> NumMul(ParseFloatFixed4(ToFixed4(Growth(OrEmptyArray(asset.historyPriceArr)))),
                        Num(100)) ]

\* if (prices.length < 2) return;
HasGrowth_AtLeastOne(asset) == Len(OrEmptyArray(asset.historyPriceArr)) >= 1

HasGrowth(asset) == Len(OrEmptyArray(asset.historyPriceArr)) >= 2

\* stockList (type "stock") or bondList (type "bond") after the forEach
RECURSIVE TopList(_, _, _)
TopList(rows, type, k) ==
    IF k = 0 THEN << >>
    ELSE LET rest == TopList(rows, type, k - 1)
         IN  IF HasGrowth(rows[k]) /\ rows[k].assetType = type
             THEN Append(rest, TopRecord(rows[k]))
             ELSE rest

\* list.sort((a, b) => b.growth - a.growth): the sort is stable
InsertByGrowth(sorted, x) ==
    LET before == { i \in 1..Len(sorted) : NumLt(sorted[i].growth, x.growth) }
        at == IF before = {} THEN Len(sorted) + 1
              ELSE CHOOSE i \in before : \A j \in before : i <= j
    IN  SubSeq(sorted, 1, at - 1) \o <<x>> \o SubSeq(sorted, at, Len(sorted))

RECURSIVE SortByGrowth(_, _)
SortByGrowth(list, k) ==
    IF k = 0 THEN << >>
    ELSE InsertByGrowth(SortByGrowth(list, k - 1), list[k])

\* list.slice(0, end) for an integer end
Slice(list, end) ==
    LET to == IF end < 0 THEN Len(list) + end ELSE end
    IN  SubSeq(list, 1, IF to > Len(list) THEN Len(list) ELSE to)

\* AssetInfo.findAll({ where: { isDeleted: false } })
RECURSIVE FindAllListed(_, _)
FindAllListed(table, k) ==
    IF k = 0 THEN << >>
    ELSE IF table[k].isDeleted THEN FindAllListed(table, k - 1)
    ELSE Append(FindAllListed(table, k - 1), table[k])

\* const limit = parseInt(ctx.query.limit) || 5;
TopMoversParse ==
    /\ pc = "idle"
    /\ locals' = [limit |-> OrDefault(ParseInt(query.limit), Num(DefaultLimit))]
    /\ pc' = "topFindAssets"
    /\ UNCHANGED <<reqId, reqItems, body, query>>
    /\ UNCHANGED histVars
    /\ UNCHANGED storeVars

\* const assets = await AssetInfo.findAll(...) and the rest of the handler
TopMoversRespond ==
    /\ pc = "topFindAssets"
    /\ LET found == FindAllListed(assets, Len(assets))
           stockList == TopList(found, "stock", Len(found))
           bondList == TopList(found, "bond", Len(found))
       IN  body' = [ status |-> 200,
                     topStocks |-> Slice(SortByGrowth(stockList, Len(stockList)), locals.limit.n),
                     topBonds |-> Slice(SortByGrowth(bondList, Len(bondList)), locals.limit.n) ]
    /\ pc' = "done"
    /\ UNCHANGED <<reqId, reqItems, locals, query>>
    /\ UNCHANGED histVars
    /\ UNCHANGED storeVars

\* the price histories of the listed assets: none, empty, one price, and
\* histories that grow by 50%, -10%, 0% and 1/300 of a percent
Histories ==
    { JsonNull, JsonArray(<< >>), JsonArray(<<Num(100)>>),
      JsonArray(<<Num(100), Num(150)>>), JsonArray(<<Num(100), Num(90)>>),
      JsonArray(<<Num(100), Num(100)>>), JsonArray(<<Num(30000), Num(30001)>>) }

\* the rows of asset_info but for their code
Listings ==
    { [assetType |-> "stock", historyPriceArr |-> h, isDeleted |-> FALSE] : h \in Histories }
    \cup { [assetType |-> "bond", historyPriceArr |-> h, isDeleted |-> FALSE] :
             h \in {JsonArray(<<Num(100)>>), JsonArray(<<Num(100), Num(150)>>)} }
    \cup { [assetType |-> "cash", historyPriceArr |-> JsonArray(<<Num(100), Num(150)>>),
            isDeleted |-> FALSE],
           [assetType |-> "stock", historyPriceArr |-> JsonArray(<<Num(100), Num(150)>>),
            isDeleted |-> TRUE] }

\* the asset codes, in the order of creation
CodeOfRow == <<"A", "B", "C", "D", "E">>

ListedAsset(id, listing) ==
    [ assetCode |-> CodeOfRow[id], name |-> CodeOfRow[id], assetType |-> listing.assetType,
      price |-> 10000, historyPriceArr |-> listing.historyPriceArr,
      isDeleted |-> listing.isDeleted ]

ListedTables ==
    UNION { { [i \in 1..n |-> ListedAsset(i, f[i])] : f \in [1..n -> Listings] } :
            n \in 0..MaxAssets }

\* ?limit=0, 1 or 2, or no limit
LimitInputs == { AbsentText, IntText(0), IntText(1), IntText(2) }

InitTop ==
    /\ portfolios = << >>
    /\ items = << >>
    /\ logs = << >>
    /\ NoService
    /\ NoUsers
    /\ assets \in ListedTables
    /\ query \in { [limit |-> l] : l \in LimitInputs }
    /\ IdleRequest
    /\ NoHistory

NextTop ==
    \/ TopMoversParse
    \/ TopMoversRespond

SpecTop == InitTop /\ [][NextTop]_vars

(***************************************************************************)
(* Properties of the ranking                                               *)
(***************************************************************************)
\* the listed (not deleted) assets of a type that have at least two prices
Ranked(type) ==
    { i \in 1..Len(assets) :
        /\ ~assets[i].isDeleted
        /\ assets[i].assetType = type
        /\ Len(OrEmptyArray(assets[i].historyPriceArr)) >= 2 }

\* lastPrice / firstPrice - 1 of the asset whose code is given
GrowthOfCode(code) ==
    LET i == CHOOSE j \in 1..Len(assets) : assets[j].assetCode = code
        prices == assets[i].historyPriceArr.value
    IN  NumSub(NumDiv(prices[Len(prices)], prices[1]), Num(1))

CodesIn(list) == { list[i].assetCode : i \in 1..Len(list) }

Min(a, b) == IF a < b THEN a ELSE b

TopOfType(type) == IF type = "stock" THEN body.topStocks ELSE body.topBonds

(***************************************************************************)
(* C12: for every limit >= 0, topStocks (likewise topBonds) has exactly    *)
(* min(limit, number of stock assets with at least two prices) entries,    *)
(* in order of non-increasing growth = lastPrice / firstPrice - 1, and no  *)
(* stock left out has a growth strictly greater than one that is included. *)
(***************************************************************************)
C12_TopMovers ==
    (pc = "done" /\ query.limit.defined /\ query.limit.int >= 0) =>
        \A type \in {"stock", "bond"} :
            LET list == TopOfType(type)
            IN  /\ Len(list) = Min(query.limit.int, Cardinality(Ranked(type)))
                /\ \A i \in 1..(Len(list) - 1) :
                       ~NumLt(GrowthOfCode(list[i].assetCode),
                              GrowthOfCode(list[i + 1].assetCode))
                /\ \A e \in Ranked(type) : \A i \in 1..Len(list) :
                       assets[e].assetCode \notin CodesIn(list) =>
                           ~NumGt(GrowthOfCode(assets[e].assetCode),
                                  GrowthOfCode(list[i].assetCode))

(***************************************************************************)
(* C13: an asset with fewer than two price observations (no history, an    *)
(* empty one or a single price) never appears in topStocks or topBonds,    *)
(* whatever the limit and the other assets are.                            *)
(***************************************************************************)
C13_FewPricesOmitted ==
    pc = "done" =>
        \A i \in 1..Len(assets) :
            Len(OrEmptyArray(assets[i].historyPriceArr)) < 2 =>
                assets[i].assetCode \notin CodesIn(body.topStocks) \cup CodesIn(body.topBonds)

\* a listed stock with a single price and a listed stock without history are
\* left out of a ranking that the limit did not cut
C13_Witness ==
    /\ pc = "done"
    /\ \E i, j \in 1..Len(assets) :
          /\ assets[i].assetType = "stock" /\ ~assets[i].isDeleted
          /\ Len(OrEmptyArray(assets[i].historyPriceArr)) = 1
          /\ assets[j].assetType = "stock" /\ ~assets[j].isDeleted
          /\ assets[j].historyPriceArr.isNull
    /\ Len(body.topStocks) = 1
    /\ ~query.limit.defined

(***************************************************************************)
(* GET /api/statistics/users/:userId/monthly-profit                        *)
(***************************************************************************)
MaxLogs == 3

\* months when the query gives none
DefaultMonths == 6

\* a DATEONLY value: a calendar month (counted from some origin) and a day
LogDate(month, day) == [month |-> month, day |-> day]

\* dayjs(date).format('YYYY-MM'): the calendar month of the date
MonthOf(date) == date.month

\* new Date(date), as compared by >
DateTime(date) == date.month * 31 + date.day

\* value is DECIMAL(15,4)
NewLog(itemId, date, value) ==
    [itemId |-> itemId, date |-> date, value |-> value * 10000, isDeleted |-> FALSE]

\* Portfolio.findAll({ where: { userId, isDeleted: false } }), as ids
RECURSIVE FindPortfolioIds(_, _, _)
FindPortfolioIds(table, userId, k) ==
    IF k = 0 THEN << >>
    ELSE IF table[k].userId = userId /\ ~table[k].isDeleted
         THEN Append(FindPortfolioIds(table, userId, k - 1), table[k].id)
         ELSE FindPortfolioIds(table, userId, k - 1)

SeqRange(seq) == { seq[i] : i \in 1..Len(seq) }

\* PortfolioItem.findAll({ where: { portfolioId: { [Op.in]: portfolioIds },
\* isDeleted: false } }), as ids
RECURSIVE FindItemIds(_, _, _)
FindItemIds(table, portfolioIds, k) ==
    IF k = 0 THEN << >>
    ELSE IF table[k].portfolioId \in SeqRange(portfolioIds) /\ ~table[k].isDeleted
         THEN Append(FindItemIds(table, portfolioIds, k - 1), k)
         ELSE FindItemIds(table, portfolioIds, k - 1)

\* ProfitLog.findAll({ where: { itemId: { [Op.in]: itemIds }, isDeleted: false } })
RECURSIVE FindLogs(_, _, _)
FindLogs(table, itemIds, k) ==
    IF k = 0 THEN << >>
    ELSE IF table[k].itemId \in SeqRange(itemIds) /\ ~table[k].isDeleted
         THEN Append(FindLogs(table, itemIds, k - 1), table[k])
         ELSE FindLogs(table, itemIds, k - 1)

\* the labels of the last `months` months, the current one last
MonthLabels(months, now) ==
    [j \in 1..(IF months > 0 THEN months ELSE 0) |-> now - (months - j)]

\* const monthlyValue = { stock: {}, bond: {}, cash: {} }
EmptyMonthlyValue == [t \in {"stock", "bond", "cash"} |-> [m \in {} |-> None]]

\* the body of the loop over the logs
Retain_OnTies(monthlyValue, log, type) ==
    LET month == MonthOf(log.date)
        kept == monthlyValue[type]
    IN  IF month \notin DOMAIN kept \/ DateTime(log.date) >= DateTime(kept[month].date)
        THEN [monthlyValue EXCEPT ![type] =
                [m \in DOMAIN kept \cup {month} |->
                    IF m = month
                    THEN [date |-> log.date, value |-> ParseFloat(log.value, 4)]
                    ELSE kept[m]]]
        ELSE monthlyValue

Retain(monthlyValue, log, type) ==
    LET month == MonthOf(log.date)
        kept == monthlyValue[type]
    IN  IF month \notin DOMAIN kept \/ DateTime(log.date) > DateTime(kept[month].date)
        THEN [monthlyValue EXCEPT ![type] =
                [m \in DOMAIN kept \cup {month} |->
                    IF m = month
                    THEN [date |-> log.date, value |-> ParseFloat(log.value, 4)]
                    ELSE kept[m]]]
        ELSE monthlyValue

\* for (const log of logs) { ... }
RECURSIVE MonthlyValue(_, _, _, _)
MonthlyValue(found, itemIds, itemTable, k) ==
    IF k = 0 THEN EmptyMonthlyValue
    ELSE LET before == MonthlyValue(found, itemIds, itemTable, k - 1)
         IN  IF found[k].itemId \notin SeqRange(itemIds) THEN before
             ELSE Retain(before, found[k], itemTable[found[k].itemId].assetType)

\* monthlyValue[type][month]?.value || 0
ValueAt(monthlyValue, type, month) ==
    IF month \in DOMAIN monthlyValue[type]
    THEN OrDefault(monthlyValue[type][month].value, Zero)
    ELSE Zero

\* stockProfit, bondProfit or cashProfit once the loop over the labels ends
Profits_NoFirst(monthlyValue, type, monthLabels) ==
    [i \in 1..Len(monthLabels) |->
        [ month |-> monthLabels[i],
          profit |-> NumSub(ValueAt(monthlyValue, type, monthLabels[i]),
                            ValueAt(monthlyValue, type, monthLabels[i] - 1)) ]]

Profits(monthlyValue, type, monthLabels) ==
    [i \in 1..Len(monthLabels) |->
        [ month |-> monthLabels[i],
          profit |-> IF i = 1 THEN Zero
                     ELSE NumSub(ValueAt(monthlyValue, type, monthLabels[i]),
                                 ValueAt(monthlyValue, type, monthLabels[i - 1])) ]]

Message(text) == [status |-> 200, message |-> text]

\* const months = parseInt(ctx.query.months) || 6;
\* const portfolios = await Portfolio.findAll(...)
MonthlyFindPortfolios ==
    /\ pc = "idle"
    /\ LET found == FindPortfolioIds(portfolios, query.userId, Len(portfolios))
       IN  /\ locals' = [ months |-> OrDefault(ParseInt(query.months), Num(DefaultMonths)),
                          portfolioIds |-> found, itemIds |-> << >>,
                          monthlyValue |-> EmptyMonthlyValue ]
           /\ IF found = << >>
              THEN /\ pc' = "done"
                   /\ body' = Message("No portfolios found for this user.")
              ELSE /\ pc' = "monthlyFindItems"
                   /\ body' = None
    /\ UNCHANGED <<reqId, reqItems, query>>
    /\ UNCHANGED histVars
    /\ UNCHANGED storeVars

\* const items = await PortfolioItem.findAll(...)
MonthlyFindItems ==
    /\ pc = "monthlyFindItems"
    /\ LET found == FindItemIds(items, locals.portfolioIds, Len(items))
       IN  /\ locals' = [locals EXCEPT !.itemIds = found]
           /\ IF found = << >>
              THEN /\ pc' = "done"
                   /\ body' = Message("No portfolio items found for this user.")
              ELSE /\ pc' = "monthlyFindLogs"
                   /\ body' = None
    /\ UNCHANGED <<reqId, reqItems, query>>
    /\ UNCHANGED histVars
    /\ UNCHANGED storeVars

\* const logs = await ProfitLog.findAll(...) and the rest of the handler
MonthlyRespond ==
    /\ pc = "monthlyFindLogs"
    /\ LET found == FindLogs(logs, locals.itemIds, Len(logs))
           monthLabels == MonthLabels(locals.months.n, query.now)
           monthlyValue == MonthlyValue(found, locals.itemIds, items, Len(found))
       IN  IF found = << >>
           THEN /\ body' = Message("No profit logs found for this user.")
                /\ UNCHANGED locals
           ELSE /\ body' = [ status |-> 200,
                             stockProfit6M |-> Profits(monthlyValue, "stock", monthLabels),
                             bondProfit6M |-> Profits(monthlyValue, "bond", monthLabels),
                             cashProfit6M |-> Profits(monthlyValue, "cash", monthLabels) ]
                /\ locals' = [locals EXCEPT !.monthlyValue = monthlyValue]
    /\ pc' = "done"
    /\ UNCHANGED <<reqId, reqItems, query>>
    /\ UNCHANGED histVars
    /\ UNCHANGED storeVars

\* the current month
ThisMonth == 3

\* the logs: the first stock item is worth 1000, 1100 and 1050 in months 1,
\* 2 and 3, and 1200 later in month 2; the second stock item is worth 900
\* on that same day; the bond item is worth 500 in month 2; a log of another
\* user's item, and a deleted log
LogInputs ==
    { NewLog(1, LogDate(1, 10), 1000), NewLog(1, LogDate(2, 10), 1100),
      NewLog(1, LogDate(3, 10), 1050), NewLog(1, LogDate(2, 20), 1200),
      NewLog(3, LogDate(2, 20), 900), NewLog(2, LogDate(2, 5), 500),
      NewLog(4, LogDate(2, 25), 777),
      [NewLog(1, LogDate(2, 28), 999) EXCEPT !.isDeleted = TRUE] }

LogTables == UNION { [1..n -> LogInputs] : n \in 0..MaxLogs }

\* user 1 has portfolio 1 with two stock items and a bond item, user 2 has
\* portfolio 2 with one item, user 3 has no portfolio
InitMonthly ==
    /\ portfolios = <<PortfolioRow(1), [PortfolioRow(2) EXCEPT !.userId = 2]>>
    /\ items = << NewItem(1, "A", "buy", Trade10), NewItem(1, "B", "buy", Trade10),
                  NewItem(1, "A", "buy", Trade4), NewItem(2, "A", "buy", Trade10) >>
    /\ assets = << >>
    /\ logs \in LogTables
    /\ NoService
    /\ NoUsers
    /\ query \in { [userId |-> u, months |-> m, now |-> ThisMonth] :
                     u \in {1, 3}, m \in {AbsentText, IntText(2), IntText(3)} }
    /\ IdleRequest
    /\ NoHistory

NextMonthly ==
    \/ MonthlyFindPortfolios
    \/ MonthlyFindItems
    \/ MonthlyRespond

SpecMonthly == InitMonthly /\ [][NextMonthly]_vars

(***************************************************************************)
(* Properties of the monthly profit                                        *)
(***************************************************************************)
\* the handler has answered with the three lists
MonthlyResponded == pc = "done" /\ "stockProfit6M" \in DOMAIN body

ProfitsOfType(type) ==
    IF type = "stock" THEN body.stockProfit6M
    ELSE IF type = "bond" THEN body.bondProfit6M
    ELSE body.cashProfit6M

\* the logs of the user's items of a type in a month, by their position in
\* the table (the order in which they are processed)
LogsOf(type, month) ==
    { i \in 1..Len(logs) :
        /\ ~logs[i].isDeleted
        /\ logs[i].itemId \in SeqRange(locals.itemIds)
        /\ items[logs[i].itemId].assetType = type
        /\ logs[i].date.month = month }

\* the first processed among the logs of the greatest date
LatestLog(type, month) ==
    CHOOSE i \in LogsOf(type, month) :
        \A j \in LogsOf(type, month) :
            \/ DateTime(logs[j].date) < DateTime(logs[i].date)
            \/ (logs[j].date = logs[i].date /\ i <= j)

\* the value retained for a type and a month, 0 when the month has no log
RetainedValue(type, month) ==
    IF LogsOf(type, month) = {} THEN Zero
    ELSE Norm(logs[LatestLog(type, month)].value, 10000)

\* the labels of the request
LabelsOfRequest ==
    LET months == IF query.months.defined THEN query.months.int ELSE DefaultMonths
    IN  [j \in 1..months |-> query.now - (months - j)]

(***************************************************************************)
(* C14: for each asset type the response has one entry per month label, in *)
(* chronological order; the first entry has profit 0 and entry i >= 1 has  *)
(* profit = (retained value of month i) - (retained value of month i - 1). *)
(***************************************************************************)
C14_MonthlyDelta ==
    MonthlyResponded =>
        \A type \in {"stock", "bond", "cash"} :
            LET list == ProfitsOfType(type)
            IN  /\ Len(list) = Len(LabelsOfRequest)
                /\ \A i \in 1..Len(list) :
                      /\ list[i].month = LabelsOfRequest[i]
                      /\ i > 1 => list[i].month = list[i - 1].month + 1
                      /\ list[i].profit =
                            IF i = 1 THEN Zero
                            ELSE NumSub(RetainedValue(type, list[i].month),
                                        RetainedValue(type, list[i - 1].month))

\* monthly values 1000, 1100, 1050 give the profits 0, 100, -50
C14_Witness ==
    /\ MonthlyResponded
    /\ logs = << NewLog(1, LogDate(1, 10), 1000), NewLog(1, LogDate(2, 10), 1100),
                 NewLog(1, LogDate(3, 10), 1050) >>
    /\ query.months = IntText(3)
    /\ body.stockProfit6M = << [month |-> 1, profit |-> Zero],
                               [month |-> 2, profit |-> Num(100)],
                               [month |-> 3, profit |-> Num(-50)] >>

\* the months in which the user's items of a type have a log
MonthsLogged(type) ==
    { logs[i].date.month : i \in { j \in 1..Len(logs) : j \in LogsOf(type, logs[j].date.month) } }

(***************************************************************************)
(* C15: for each asset type and calendar month, the value retained is that *)
(* of the log with the greatest date among the type's logs of that month,  *)
(* in whatever order the logs are processed; among the logs of that        *)
(* greatest date the first processed is the one kept.                      *)
(***************************************************************************)
C15_LatestRetained ==
    MonthlyResponded =>
        \A type \in {"stock", "bond", "cash"} :
            /\ DOMAIN locals.monthlyValue[type] = MonthsLogged(type)
            /\ \A month \in MonthsLogged(type) :
                  LET kept == locals.monthlyValue[type][month]
                  IN  /\ \A i \in LogsOf(type, month) :
                             DateTime(logs[i].date) <= DateTime(kept.date)
                      /\ kept.date = logs[LatestLog(type, month)].date
                      /\ kept.value = Norm(logs[LatestLog(type, month)].value, 10000)

\* the log of day 20 worth 900 is processed before the log of the same day
\* worth 1200 and after the log of day 10: 900 is retained
C15_Witness ==
    /\ MonthlyResponded
    /\ logs = << NewLog(1, LogDate(2, 10), 1100), NewLog(3, LogDate(2, 20), 900),
                 NewLog(1, LogDate(2, 20), 1200) >>
    /\ locals.monthlyValue["stock"][2].value = Num(900)

(***************************************************************************)
(* GET /api/portfolios/:userId/returns                                     *)
(***************************************************************************)
MaxPortfolios == 2

MaxBuys == 2

\* Portfolio.findAll({ where: { isDeleted: false, userId } }), as ids
FindPortfoliosOfUser(table, userId) == FindPortfolioIds(table, userId, Len(table))

\* include PortfolioItem where { isDeleted: false, type: 'buy' }: the rows of
\* a portfolio, as ids
RECURSIVE PortfolioItemsOf_AllTypes(_, _, _)
PortfolioItemsOf_AllTypes(table, portfolioId, k) ==
    IF k = 0 THEN << >>
    ELSE IF table[k].portfolioId = portfolioId /\ ~table[k].isDeleted
         THEN Append(PortfolioItemsOf_AllTypes(table, portfolioId, k - 1), k)
         ELSE PortfolioItemsOf_AllTypes(table, portfolioId, k - 1)

RECURSIVE PortfolioItemsOf(_, _, _)
PortfolioItemsOf(table, portfolioId, k) ==
    IF k = 0 THEN << >>
    ELSE IF /\ table[k].portfolioId = portfolioId
            /\ ~table[k].isDeleted
            /\ table[k].type = "buy"
         THEN Append(PortfolioItemsOf(table, portfolioId, k - 1), k)
         ELSE PortfolioItemsOf(table, portfolioId, k - 1)

\* include AssetInfo where { isDeleted: false }: the id of the asset joined
\* to an item on its assetCode, 0 when item.AssetInfo is null
AssetInfoOf(assetTable, item) ==
    LET matches == { i \in 1..Len(assetTable) :
                       assetTable[i].assetCode = item.assetCode /\ ~assetTable[i].isDeleted }
    IN  IF matches = {} THEN 0 ELSE CHOOSE i \in matches : \A j \in matches : i <= j

\* the items of all the portfolios found, in the order of the two forEach
RECURSIVE AllItemsOf(_, _, _)
AllItemsOf(itemTable, portfolioIds, k) ==
    IF k = 0 THEN << >>
    ELSE AllItemsOf(itemTable, portfolioIds, k - 1)
         \o PortfolioItemsOf(itemTable, portfolioIds[k], Len(itemTable))

\* item.AssetInfo.dateArr?.length > maxDateArr.length
LongerDateArr_OrEqual(asset, maxDateArr) ==
    ~asset.dateArr.isNull /\ Len(asset.dateArr.value) >= Len(maxDateArr)

LongerDateArr(asset, maxDateArr) ==
    ~asset.dateArr.isNull /\ Len(asset.dateArr.value) > Len(maxDateArr)

\* let maxDateArr = []; portfolios.forEach(p => p.PortfolioItems.forEach(...))
RECURSIVE MaxDateArr(_, _, _, _)
MaxDateArr(itemTable, assetTable, itemIds, k) ==
    IF k = 0 THEN << >>
    ELSE LET before == MaxDateArr(itemTable, assetTable, itemIds, k - 1)
             a == AssetInfoOf(assetTable, itemTable[itemIds[k]])
         IN  IF a # 0 /\ LongerDateArr(assetTable[a], before)
             THEN assetTable[a].dateArr.value
             ELSE before

\* item.AssetInfo.historyPriceArr?.[idx] || 0
PriceAt(asset, idx) ==
    IF asset.historyPriceArr.isNull \/ idx > Len(asset.historyPriceArr.value)
    THEN Zero
    ELSE OrDefault(asset.historyPriceArr.value[idx], Zero)

\* totalValue after p.PortfolioItems.forEach(...)
RECURSIVE TotalValueAt(_, _, _, _, _)
TotalValueAt(itemTable, assetTable, itemIds, idx, k) ==
    IF k = 0 THEN Zero
    ELSE LET before == TotalValueAt(itemTable, assetTable, itemIds, idx, k - 1)
             item == itemTable[itemIds[k]]
             a == AssetInfoOf(assetTable, item)
         IN  IF a = 0 THEN before
             ELSE NumAdd(before, NumMul(PriceAt(assetTable[a], idx),
                                        ParseFloat(item.quantity, 4)))

\* parseFloat(totalValue.toFixed(2))
ParseFloatFixed2(str) ==
    IF str.text = "NaN" THEN NaN
    ELSE IF str.text = "Infinity" THEN Norm(1, 0)
    ELSE IF str.text = "-Infinity" THEN Norm(-1, 0)
    ELSE ParseFloat(str.hundredths, 2)

\* const values = maxDateArr.map((time, idx) => ...)
SeriesOf(itemTable, assetTable, portfolioId, maxDateArr) ==
    LET itemIds == PortfolioItemsOf(itemTable, portfolioId, Len(itemTable))
    IN  [idx \in 1..Len(maxDateArr) |->
            [ time |-> maxDateArr[idx],
              value |-> ParseFloatFixed2(ToFixed2(
                          TotalValueAt(itemTable, assetTable, itemIds, idx, Len(itemIds)))) ]]

\* const result = {}; portfolios.forEach(p => { ...; result[p.name] = values; })
RECURSIVE BuildResult(_, _, _, _, _, _)
BuildResult(portfolioTable, itemTable, assetTable, portfolioIds, maxDateArr, k) ==
    IF k = 0 THEN [name \in {} |-> << >>]
    ELSE LET before == BuildResult(portfolioTable, itemTable, assetTable,
                                   portfolioIds, maxDateArr, k - 1)
             p == portfolioTable[portfolioIds[k]]
         IN  [name \in DOMAIN before \cup {p.name} |->
                 IF name = p.name
                 THEN SeriesOf(itemTable, assetTable, p.id, maxDateArr)
                 ELSE before[name]]

\* the handler: one query, then the computation
ReturnsRespond ==
    /\ pc = "idle"
    /\ LET found == FindPortfoliosOfUser(portfolios, query.userId)
           itemIds == AllItemsOf(items, found, Len(found))
           maxDateArr == MaxDateArr(items, assets, itemIds, Len(itemIds))
       IN  /\ locals' = [portfolioIds |-> found, maxDateArr |-> maxDateArr]
           /\ body' = [ status |-> 200,
                        result |-> BuildResult(portfolios, items, assets, found,
                                               maxDateArr, Len(found)) ]
    /\ pc' = "done"
    /\ UNCHANGED <<reqId, reqItems, query>>
    /\ UNCHANGED histVars
    /\ UNCHANGED storeVars

\* the rows of table portfolio but for their id: portfolios of user 1 named
\* P or Q, one of them deleted, and a portfolio of user 2
PortfolioInputs ==
    { [userId |-> 1, name |-> n, isDeleted |-> FALSE] : n \in {"P", "Q"} }
    \cup { [userId |-> 1, name |-> "Q", isDeleted |-> TRUE],
           [userId |-> 2, name |-> "P", isDeleted |-> FALSE] }

PortfolioTables ==
    UNION { { [i \in 1..n |-> [id |-> i, userId |-> f[i].userId, name |-> f[i].name,
                               isDeleted |-> f[i].isDeleted]] :
              f \in [1..n -> PortfolioInputs] } : n \in 0..MaxPortfolios }

\* half a unit for 0.06
TradeHalf == [quantity |-> 5000, amount |-> 6]

\* purchases and a sale in portfolios 1 and 2, and a deleted purchase
BuyInputs ==
    { NewItem(1, "A", "buy", Trade10), NewItem(1, "B", "buy", TradeHalf),
      NewItem(2, "A", "buy", Trade4), NewItem(2, "B", "buy", Trade10),
      NewItem(1, "A", "sell", Trade10),
      [NewItem(1, "B", "buy", Trade4) EXCEPT !.isDeleted = TRUE] }

BuyTables == UNION { [1..n -> BuyInputs] : n \in 0..MaxBuys }

SeriesAsset(code, dateArr, historyPriceArr) ==
    [ assetCode |-> code, name |-> code, assetType |-> AssetTypeOf(code), price |-> 10000,
      dateArr |-> dateArr, historyPriceArr |-> historyPriceArr, isDeleted |-> FALSE ]

\* A over two days at 100 and 150; B over three days at 0.125, 20 and 30, or
\* over two other days with one price, or absent; A deleted, or without dates
SeriesAssetTables ==
    LET a == SeriesAsset("A", JsonArray(<<"d1", "d2">>), JsonArray(<<Num(100), Num(150)>>))
        b3 == SeriesAsset("B", JsonArray(<<"d1", "d2", "d3">>),
                          JsonArray(<<Norm(1, 8), Num(20), Num(30)>>))
        b2 == SeriesAsset("B", JsonArray(<<"e1", "e2">>), JsonArray(<<Norm(1, 8)>>))
    IN  { <<a, b3>>, <<a, b2>>, <<b2, a>>, <<a>>,
          <<[a EXCEPT !.isDeleted = TRUE], b3>>,
          <<[a EXCEPT !.dateArr = JsonNull], b2>> }

InitReturns ==
    /\ portfolios \in PortfolioTables
    /\ items \in BuyTables
    /\ assets \in SeriesAssetTables
    /\ logs = << >>
    /\ NoService
    /\ NoUsers
    /\ query = [userId |-> 1]
    /\ IdleRequest
    /\ NoHistory

NextReturns == ReturnsRespond

SpecReturns == InitReturns /\ [][NextReturns]_vars

(***************************************************************************)
(* Properties of the net-worth series                                      *)
(***************************************************************************)
\* the portfolios the series are built for: those of the user, not deleted
GivenPortfolios ==
    { i \in 1..Len(portfolios) :
        portfolios[i].userId = query.userId /\ ~portfolios[i].isDeleted }

\* the purchases of a portfolio
BuysOf(pid) ==
    { k \in 1..Len(items) :
        items[k].portfolioId = pid /\ items[k].type = "buy" /\ ~items[k].isDeleted }

\* the listed asset of a transaction, 0 when there is none
ListedAssetOf(k) ==
    IF \E i \in 1..Len(assets) : assets[i].assetCode = items[k].assetCode /\ ~assets[i].isDeleted
    THEN CHOOSE i \in 1..Len(assets) :
            /\ assets[i].assetCode = items[k].assetCode /\ ~assets[i].isDeleted
            /\ \A j \in 1..(i - 1) :
                   ~(assets[j].assetCode = items[k].assetCode /\ ~assets[j].isDeleted)
    ELSE 0

\* the date sequences of the purchases' assets, as (portfolio, transaction)
DatedBuys ==
    { <<p, k>> \in GivenPortfolios \X (1..Len(items)) :
        /\ k \in BuysOf(p)
        /\ ListedAssetOf(k) # 0
        /\ ~assets[ListedAssetOf(k)].dateArr.isNull }

DateArrOf(pk) == assets[ListedAssetOf(pk[2])].dateArr.value

\* the longest of them, the first found on ties; empty when there is none
TimeAxis ==
    IF \A pk \in DatedBuys : Len(DateArrOf(pk)) = 0 THEN << >>
    ELSE DateArrOf(CHOOSE pk \in DatedBuys :
            \A other \in DatedBuys :
                \/ Len(DateArrOf(other)) < Len(DateArrOf(pk))
                \/ /\ Len(DateArrOf(other)) = Len(DateArrOf(pk))
                   /\ (pk[1] < other[1] \/ (pk[1] = other[1] /\ pk[2] <= other[2])))

\* price[i] * quantity of a purchase, 0 when the asset or the price is missing
Contribution(k, i) ==
    LET a == ListedAssetOf(k)
    IN  IF a = 0 THEN Zero
        ELSE IF assets[a].historyPriceArr.isNull THEN Zero
        ELSE IF i > Len(assets[a].historyPriceArr.value) THEN Zero
        ELSE NumMul(assets[a].historyPriceArr.value[i], Norm(items[k].quantity, 10000))

RECURSIVE SumContributions(_, _, _)
SumContributions(pid, i, k) ==
    IF k = 0 THEN Zero
    ELSE NumAdd(SumContributions(pid, i, k - 1),
                IF k \in BuysOf(pid) THEN Contribution(k, i) ELSE Zero)

ReturnsResponded == pc = "done" /\ "result" \in DOMAIN body

LastNamed(name) ==
    CHOOSE p \in GivenPortfolios :
        /\ portfolios[p].name = name
        /\ \A q \in GivenPortfolios : portfolios[q].name = name => q <= p

\* a number of at most two decimals that differs from x by at most 0.005
RoundsToCents(value, x) ==
    /\ IsFinite(value)
    /\ 100 % value.d = 0
    /\ ~NumGt(NumAbs(NumSub(value, x)), Norm(1, 200))

C17_OneSeriesPerPortfolio ==
    ReturnsResponded =>
        /\ Cardinality(DOMAIN body.result) = Cardinality(GivenPortfolios)
        /\ \A p \in GivenPortfolios :
              /\ portfolios[p].name \in DOMAIN body.result
              /\ body.result[portfolios[p].name] =
                    SeriesOf(items, assets, p, locals.maxDateArr)

(***************************************************************************)
(* The asset operations: POST /api/assets/create, /update/:id and          *)
(* /batch-update-prices, and PortfolioService.updateAssetPrice.  A field   *)
(* that a request body does not give is JsonNull; the arrays given pass    *)
(* the validators isArrayOfNumbers and isArrayOfStrings.                   *)
(***************************************************************************)
MaxListed == 2

\* the arrays a request gives for dateArr and for the price history
DateArrInputs == { JsonNull, JsonArray(<<"d1">>), JsonArray(<<"d1", "d2">>) }

HistoryInputs == { JsonNull, JsonArray(<<Num(100)>>), JsonArray(<<Num(100), Num(150)>>) }

\* AssetInfo.create(ctx.request.body)
AssetCreate(code, price, historyPriceArr, dateArr) ==
    /\ Len(assets) < MaxListed
    /\ assets' = Append(assets, [SeriesAsset(code, dateArr, historyPriceArr)
                                    EXCEPT !.price = price])
    /\ UNCHANGED <<portfolios, items, logs, serviceVars, authVars>>
    /\ UNCHANGED reqVars
    /\ UNCHANGED histVars

\* the attributes of a row after an update with the values given
Updated(row, price, historyPriceArr, dateArr) ==
    [row EXCEPT !.price = price,
                !.historyPriceArr = IF historyPriceArr.isNull THEN @ ELSE historyPriceArr,
                !.dateArr = IF dateArr.isNull THEN @ ELSE dateArr]

\* AssetInfo.update(ctx.request.body, { where: { id: ctx.params.id } })
AssetUpdate(id, price, historyPriceArr, dateArr) ==
    /\ id \in 1..Len(assets)
    /\ assets' = [assets EXCEPT ![id] = Updated(@, price, historyPriceArr, dateArr)]
    /\ UNCHANGED <<portfolios, items, logs, serviceVars, authVars>>
    /\ UNCHANGED reqVars
    /\ UNCHANGED histVars

\* AssetInfo.update({ price, historyPriceArt, dateArr, updatedAt },
\* { where: { assetCode, isDeleted: false } }): historyPriceArt is not an
\* attribute of the model, so the price history is not written
BatchUpdateOne(table, update) ==
    [i \in 1..Len(table) |->
        IF table[i].assetCode = update.assetCode /\ ~table[i].isDeleted
        THEN Updated(table[i], update.price, JsonNull, update.dateArr)
        ELSE table[i]]

\* for (const update of updates) { await AssetInfo.update(...) }
RECURSIVE BatchUpdateAll(_, _, _)
BatchUpdateAll(table, updates, k) ==
    IF k = 0 THEN table
    ELSE BatchUpdateOne(BatchUpdateAll(table, updates, k - 1), updates[k])

\* POST /api/assets/batch-update-prices, no other asset request being served
\* between its updates
BatchUpdatePrices(updates) ==
    /\ assets' = BatchUpdateAll(assets, updates, Len(updates))
    /\ UNCHANGED <<portfolios, items, logs, serviceVars, authVars>>
    /\ UNCHANGED reqVars
    /\ UNCHANGED histVars

\* a row of table assets (model Asset): assetCode is unique, price is
\* DECIMAL(15,4), the two arrays may be null
ServiceAsset(code, price) ==
    [ assetCode |-> code, name |-> code, assetType |-> AssetTypeOf(code), price |-> price,
      dateArr |-> JsonNull, historyPriceArr |-> JsonNull, isDeleted |-> FALSE ]

\* PortfolioService.updateAssetPrice(assetCode, newPrice, historyPriceArr, dateArr):
\* it reads and writes model Asset, that is table assets
UpdateAssetPrice(assetCode, newPrice, historyPriceArr, dateArr) ==
    LET found == { i \in 1..Len(serviceAssets) : serviceAssets[i].assetCode = assetCode }
    IN  /\ found # {}
        /\ LET id == CHOOSE i \in found : \A j \in found : i <= j
           IN  serviceAssets' = [serviceAssets EXCEPT ![id] =
                                   IF ~historyPriceArr.isNull /\ ~dateArr.isNull
                                   THEN Updated(@, newPrice, historyPriceArr, dateArr)
                                   ELSE Updated(@, newPrice, JsonNull, JsonNull)]
        /\ UNCHANGED <<portfolios, items, assets, logs, profitLogs, authVars>>
        /\ UNCHANGED reqVars
        /\ UNCHANGED histVars

\* the updates of a batch request: one or two, with the arrays of the body
BatchInputs ==
    LET one == { [assetCode |-> c, price |-> 1200, historyPriceArt |-> h, dateArr |-> d] :
                   c \in Codes, h \in HistoryInputs, d \in DateArrInputs }
    IN  { <<u>> : u \in one }
        \cup { <<u, v>> : u \in { w \in one : w.assetCode = "A" },
                          v \in { w \in one : w.assetCode = "B" } }

InitAssets ==
    /\ portfolios = << >>
    /\ items = << >>
    /\ assets = << >>
    /\ logs = << >>
    /\ serviceAssets \in { << >>, <<ServiceAsset("A", 90000)>> }
    /\ profitLogs = << >>
    /\ NoUsers
    /\ query = None
    /\ IdleRequest
    /\ NoHistory

NextAssets ==
    \/ \E c \in Codes, h \in HistoryInputs, d \in DateArrInputs : AssetCreate(c, 900, h, d)
    \/ \E id \in 1..MaxListed, h \in HistoryInputs, d \in DateArrInputs :
          AssetUpdate(id, 1200, h, d)
    \/ \E updates \in BatchInputs : BatchUpdatePrices(updates)
    \/ \E c \in Codes, h \in HistoryInputs, d \in DateArrInputs :
          UpdateAssetPrice(c, 1200, h, d)

SpecAssets == InitAssets /\ [][NextAssets]_vars

(***************************************************************************)
(* C18: in every state reachable through the asset operations, the date    *)
(* sequence and the historical price sequence of each asset have the same  *)
(* length.                                                                 *)
(***************************************************************************)
C18_ParallelSequences ==
    \A table \in {assets, serviceAssets} : \A i \in 1..Len(table) :
        Len(OrEmptyArray(table[i].dateArr)) = Len(OrEmptyArray(table[i].historyPriceArr))

(***************************************************************************)
(* C19: assetCount in the summary is the number of holdings whose final    *)
(* quantity is not zero: long and short holdings are counted, closed ones  *)
(* are not.                                                                *)
(***************************************************************************)
C19_AssetCount ==
    Responded =>
        body.assetCount =
            Cardinality({ i \in 1..Len(body.holdings) : body.holdings[i].quantity # Zero })

(***************************************************************************)
(* The valuation of ledgers in which a short position is covered at a      *)
(* price above the price it was sold at                                    *)
(***************************************************************************)
\* 1 unit for 100.00
TradeDear == [quantity |-> 10000, amount |-> 10000]

CoverInputs ==
    { NewItem(1, "A", "buy", Trade10), NewItem(1, "A", "buy", TradeDear),
      NewItem(1, "A", "sell", Trade4), NewItem(1, "A", "sell", Trade10) }

CoverLedgers == UNION { [1..n -> CoverInputs] : n \in 0..MaxItems }

InitCover ==
    /\ portfolios = <<PortfolioRow(1), PortfolioRow(2)>>
    /\ items \in CoverLedgers
    /\ assets = <<NewAsset("A", 1200)>>
    /\ logs = << >>
    /\ NoService
    /\ NoUsers
    /\ query = None
    /\ IdleRequest
    /\ NoHistory

SpecCover == InitCover /\ [][NextValuation]_vars

(***************************************************************************)
(* C20: with transactions of strictly positive quantity and amount, every  *)
(* open (long or short) holding of the summary has a non-negative average  *)
(* cost: after any sequence of buys and sells its running cost and its     *)
(* running quantity do not have opposite signs.                            *)
(***************************************************************************)
C20_AvgCostNonNegative ==
    Responded =>
        /\ \A i \in 1..Len(body.holdings) :
              IsOpen(body.holdings[i]) => ~NumLt(body.holdings[i].avgCost, Zero)
        /\ \A k \in 0..Len(reqItems) : \A i \in 1..Len(ScanAt(k).holdings) :
              LET h == ScanAt(k).holdings[i]
              IN  Sign(h.cost.n) * Sign(h.quantity.n) >= 0

(***************************************************************************)
(* C21: after the summary has processed any sequence of buys and sells,    *)
(* the final quantity of each holding equals the total bought quantity     *)
(* minus the total sold quantity of that asset code, independently of the  *)
(* order of the transactions.                                              *)
(***************************************************************************)
\* the sum of the quantities of the first k items that are of `code` and `type`
RECURSIVE TradedQuantity(_, _, _, _)
TradedQuantity(its, code, type, k) ==
    IF k = 0 THEN Zero
    ELSE IF its[k].assetCode = code /\ its[k].type = type
    THEN NumAdd(TradedQuantity(its, code, type, k - 1), ParseFloat(its[k].quantity, 4))
    ELSE TradedQuantity(its, code, type, k - 1)

NetQuantity(its, code) ==
    NumSub(TradedQuantity(its, code, "buy", Len(its)),
           TradedQuantity(its, code, "sell", Len(its)))

\* the items with those at positions k and k + 1 exchanged
SwapAdjacent(its, k) ==
    [i \in 1..Len(its) |-> IF i = k THEN its[k + 1] ELSE IF i = k + 1 THEN its[k] ELSE its[i]]

\* the quantities of the holdings of a response, by asset code
QuantityByCode(b) ==
    [ c \in { b.holdings[i].assetCode : i \in 1..Len(b.holdings) } |->
        b.holdings[HoldingIndex(b.holdings, c)].quantity ]

\* the response to the request had the items been found in the order `its`
SummaryOf(its) == SummaryBody(reqId, Valuation(its, locals.assetMap))

HoldingsByCode(b) ==
    [ c \in { b.holdings[i].assetCode : i \in 1..Len(b.holdings) } |->
        LET h == b.holdings[HoldingIndex(b.holdings, c)]
        IN  [ quantity |-> h.quantity, cost |-> h.cost, avgCost |-> h.avgCost,
              marketValue |-> h.marketValue, status |-> h.status ] ]

SameValuation(b1, b2) ==
    /\ b1.realizedGain = b2.realizedGain
    /\ b1.unrealizedGain = b2.unrealizedGain
    /\ b1.totalValue = b2.totalValue
    /\ b1.totalGain = b2.totalGain
    /\ HoldingsByCode(b1) = HoldingsByCode(b2)

ReturnsOf(itemTable) ==
    LET found == FindPortfoliosOfUser(portfolios, query.userId)
        itemIds == AllItemsOf(itemTable, found, Len(found))
        maxDateArr == MaxDateArr(itemTable, assets, itemIds, Len(itemIds))
    IN  BuildResult(portfolios, itemTable, assets, found, maxDateArr, Len(found))

IsSell(row) == row.type = "sell"

WithoutSells(itemTable) == SelectSeq(itemTable, LAMBDA r : ~IsSell(r))

\* the sells a request may add or put in the place of another
SellInputs ==
    { NewItem(pid, code, "sell", t) : pid \in {1, 2}, code \in Codes, t \in {Trade4, Trade10} }

C23_SellsIgnored ==
    ReturnsResponded =>
        /\ body.result = ReturnsOf(WithoutSells(items))
        /\ \A sell \in SellInputs :
              /\ body.result = ReturnsOf(Append(items, sell))
              /\ \A k \in 1..Len(items) :
                    IsSell(items[k]) => body.result = ReturnsOf([items EXCEPT ![k] = sell])

\* 10 of A bought and 10 of A sold in portfolio P: the series still shows
\* 10 * 100 and 10 * 150
C23_Witness ==
    /\ ReturnsResponded
    /\ items = << NewItem(1, "A", "buy", Trade10), NewItem(1, "A", "sell", Trade10) >>
    /\ portfolios = << [id |-> 1, userId |-> 1, name |-> "P", isDeleted |-> FALSE] >>
    /\ assets[1].assetCode = "A" /\ ~assets[1].isDeleted /\ Len(locals.maxDateArr) = 2
    /\ body.result["P"][1].value = Num(1000)
    /\ body.result["P"][2].value = Num(1500)

(***************************************************************************)
(* PortfolioService (src/services/portfolioService.js).  Its models come   *)
(* from src/models/index.js: PortfolioItem is table portfolio_item, Asset  *)
(* is table assets.  A call either returns a value or throws.              *)
(***************************************************************************)
MaxAdded == 3

Returned(value) == [status |-> 0, thrown |-> FALSE, value |-> value]

Thrown(text) == [status |-> 0, thrown |-> TRUE, message |-> text]

\* a variant of FindOneAsset: the where clause is missing
FindOneAsset_AnyCode(table, assetCode) == IF table = << >> THEN 0 ELSE 1

\* Asset.findOne({ where: { assetCode } }): the id of the row, 0 for null
FindOneAsset(table, assetCode) ==
    LET found == { i \in 1..Len(table) : table[i].assetCode = assetCode }
    IN  IF found = {} THEN 0 ELSE CHOOSE i \in found : \A j \in found : i <= j

\* the attributes of PortfolioItem that the model declares allowNull: false
\* or as an ENUM
ValidItem(row) ==
    /\ row.amount.defined /\ row.quantity.defined
    /\ row.assetType \in {"stock", "bond", "cash"}
    /\ row.type \in {"buy", "sell"}

\* itemData of a trade of `code`; `given` tells whether amount is given
ItemData(code, type, trade, given) ==
    [ assetCode |-> code, assetType |-> AssetTypeOf(code),
      amount |-> IF given THEN IntText(trade.amount) ELSE AbsentText,
      quantity |-> IntText(trade.quantity), type |-> type,
      purchaseDate |-> DateOfTrade(trade),
      sellDate |-> IF type = "sell" THEN DateOfTrade(trade) ELSE 0 ]

\* the row PortfolioItem.create stores
CreatedItem(portfolioId, itemData) ==
    [ portfolioId |-> portfolioId, assetCode |-> itemData.assetCode,
      assetType |-> itemData.assetType, amount |-> itemData.amount.int,
      quantity |-> itemData.quantity.int, type |-> itemData.type,
      purchaseDate |-> itemData.purchaseDate, sellDate |-> itemData.sellDate,
      isDeleted |-> FALSE ]

\* addPortfolioItem up to the answer of Asset.findOne
AddPortfolioItemFind(portfolioId, itemData) ==
    /\ pc = "idle"
    /\ Len(items) < MaxAdded
    /\ query' = [call |-> "addPortfolioItem", portfolioId |-> portfolioId,
                 itemData |-> itemData]
    /\ IF FindOneAsset(serviceAssets, itemData.assetCode) = 0
       THEN /\ pc' = "done"
            /\ body' = Thrown("add failed: no such asset")
       ELSE /\ pc' = "addCreate"
            /\ body' = None
    /\ UNCHANGED <<reqId, reqItems, locals>>
    /\ UNCHANGED histVars
    /\ UNCHANGED storeVars

\* await PortfolioItem.create({ ..., isDeleted: false }); return portfolioItem
AddPortfolioItemCreate ==
    /\ pc = "addCreate"
    /\ IF ValidItem(query.itemData)
       THEN /\ items' = Append(items, CreatedItem(query.portfolioId, query.itemData))
            /\ body' = Returned(Len(items) + 1)
       ELSE /\ items' = items
            /\ body' = Thrown("add failed: validation error")
    /\ pc' = "done"
    /\ UNCHANGED <<reqId, reqItems, locals, query>>
    /\ UNCHANGED histVars
    /\ UNCHANGED <<portfolios, assets, logs, serviceVars, authVars>>

\* getPortfolioDetails: the items of the portfolio that are not deleted, as ids
RECURSIVE DetailItems(_, _, _)
DetailItems(table, portfolioId, k) ==
    IF k = 0 THEN << >>
    ELSE IF table[k].portfolioId = portfolioId /\ ~table[k].isDeleted
         THEN Append(DetailItems(table, portfolioId, k - 1), k)
         ELSE DetailItems(table, portfolioId, k - 1)

\* the loop of calculatePortfolioValue over the first k items: totalValue and
\* totalProfit, or failed when item.asset is null
RECURSIVE ValueLoop(_, _, _, _)
ValueLoop(itemTable, assetRows, ids, k) ==
    IF k = 0 THEN [failed |-> FALSE, totalValue |-> Zero, totalProfit |-> Zero]
    ELSE LET before == ValueLoop(itemTable, assetRows, ids, k - 1)
             item == itemTable[ids[k]]
             a == FindOneAsset(assetRows, item.assetCode)
         IN  IF before.failed \/ a = 0 THEN [before EXCEPT !.failed = TRUE]
             ELSE LET currentPrice == ParseFloat(assetRows[a].price, 4)
                      currentValue == NumMul(ParseFloat(item.quantity, 4), currentPrice)
                      profit == NumSub(currentValue, ParseFloat(item.amount, 2))
                  IN  [ failed |-> FALSE,
                        totalValue |-> NumAdd(before.totalValue, currentValue),
                        totalProfit |-> NumAdd(before.totalProfit, profit) ]

\* totalValue > 0 ? parseFloat(((totalProfit / (totalValue - totalProfit)) * 100).toFixed(2)) : 0
ProfitRate(totalValue, totalProfit) ==
    IF NumGt(totalValue, Zero)
    THEN ParseFloatFixed2(ToFixed2(NumMul(NumDiv(totalProfit, NumSub(totalValue, totalProfit)),
                                          Num(100))))
    ELSE Zero

\* calculatePortfolioValue(portfolioId)
CalculatePortfolioValue(portfolioId) ==
    /\ pc = "idle"
    /\ query' = [call |-> "calculatePortfolioValue", portfolioId |-> portfolioId]
    /\ IF FindByPk(portfolios, portfolioId) = {}
       THEN /\ body' = Thrown("calculate failed: no such portfolio")
            /\ locals' = NoLocals
       ELSE LET ids == DetailItems(items, portfolioId, Len(items))
                loop == ValueLoop(items, serviceAssets, ids, Len(ids))
            IN  IF loop.failed
                THEN /\ body' = Thrown("calculate failed: TypeError")
                     /\ locals' = NoLocals
                ELSE /\ locals' = [ assetMap |-> << >>, totalValue |-> loop.totalValue,
                                    totalProfit |-> loop.totalProfit ]
                     /\ body' = Returned(
                            [ portfolioId |-> portfolioId,
                              totalValue |-> ParseFloatFixed2(ToFixed2(loop.totalValue)),
                              totalProfit |-> ParseFloatFixed2(ToFixed2(loop.totalProfit)),
                              profitRate |-> ProfitRate(loop.totalValue, loop.totalProfit) ])
    /\ pc' = "done"
    /\ UNCHANGED <<reqId, reqItems>>
    /\ UNCHANGED histVars
    /\ UNCHANGED storeVars

\* the caller has the answer; the next call may begin
ServiceReturn ==
    /\ pc = "done"
    /\ pc' = "idle"
    /\ body' = None
    /\ locals' = NoLocals
    /\ UNCHANGED <<reqId, reqItems, query>>
    /\ UNCHANGED histVars
    /\ UNCHANGED storeVars

\* what addPortfolioItem is called with: trades of A and B, of C that no
\* table lists, and a buy whose amount is missing
ItemDataInputs ==
    { ItemData("A", "buy", t, TRUE) : t \in {Trade10, Trade4} }
    \cup { ItemData("B", "buy", Trade10, TRUE), ItemData("A", "sell", Trade4, TRUE),
           ItemData("C", "buy", Trade10, TRUE), ItemData("A", "buy", Trade10, FALSE) }

\* table asset_info lists A at 12.00 and B at 15.00; table assets lists A
\* at 12.0000 or at 9.0000, and B at 15.0000 or not at all
ServiceAssetTables ==
    { <<ServiceAsset("A", pa)>> : pa \in {120000, 90000} }
    \cup { <<ServiceAsset("A", 120000), ServiceAsset("B", 150000)>> }

InitService ==
    /\ portfolios = <<PortfolioRow(1)>>
    /\ items = << >>
    /\ assets = <<NewAsset("A", 1200), NewAsset("B", 1500)>>
    /\ logs = << >>
    /\ serviceAssets \in ServiceAssetTables
    /\ profitLogs = << >>
    /\ NoUsers
    /\ query = None
    /\ IdleRequest
    /\ NoHistory

NextService ==
    \/ \E itemData \in ItemDataInputs : AddPortfolioItemFind(1, itemData)
    \/ AddPortfolioItemCreate
    \/ \E portfolioId \in {1, 2} : CalculatePortfolioValue(portfolioId)
    \/ ServiceReturn

SpecService == InitService /\ [][NextService]_vars

(***************************************************************************)
(* C24: for buy-only portfolios whose assets all exist,                    *)
(* calculatePortfolioValue and the summary endpoint agree before rounding: *)
(* the service's totalValue equals the summary's totalValue, its           *)
(* totalProfit equals the summary's unrealizedGain, and its profitRate is  *)
(* totalProfit / (sum of the amounts) * 100 when totalValue > 0 and 0      *)
(* otherwise.                                                              *)
(***************************************************************************)
Calculated ==
    pc = "done" /\ query.call = "calculatePortfolioValue" /\ ~body.thrown

\* the items the two computations read
ItemsOfCall == FindAllItems(items, query.portfolioId)

BuyOnly == \A k \in 1..Len(ItemsOfCall) : ItemsOfCall[k].type = "buy"

\* every asset code of the portfolio is listed in table assets and, not
\* deleted, in table asset_info
AssetsAllExist ==
    \A code \in AssetCodesOf(ItemsOfCall) :
        /\ FindOneAsset(serviceAssets, code) # 0
        /\ \E i \in 1..Len(assets) : assets[i].assetCode = code /\ ~assets[i].isDeleted

\* totalProfit / (sum of the amounts) * 100 when totalValue > 0, else 0
RateOnAmounts ==
    IF NumGt(locals.totalValue, Zero)
    THEN NumMul(NumDiv(locals.totalProfit, SumAmounts(ItemsOfCall, Len(ItemsOfCall))), Num(100))
    ELSE Zero

C24_ServiceAgreesWithSummary ==
    (Calculated /\ BuyOnly /\ AssetsAllExist) =>
        LET summary == Summary(items, assets, query.portfolioId)
        IN  /\ locals.totalValue = summary.totalValue
            /\ locals.totalProfit = summary.unrealizedGain
            /\ RoundsToCents(body.value.profitRate, RateOnAmounts)

(***************************************************************************)
(* C29: addPortfolioItem called with an asset code for which no asset      *)
(* exists raises an error and creates no portfolio item, leaving the set   *)
(* of portfolio items unchanged; it creates exactly one item, with         *)
(* isDeleted false, when the asset exists.                                 *)
(***************************************************************************)
\* this step ends a call of addPortfolioItem
AddAnswered ==
    pc \in {"idle", "addCreate"} /\ pc' = "done" /\ query'.call = "addPortfolioItem"

\* table assets has a row of the code
AssetListed(code) == \E i \in 1..Len(serviceAssets) : serviceAssets[i].assetCode = code

AddRaised == body'.thrown /\ items' = items

AddedOne ==
    /\ ~body'.thrown
    /\ Len(items') = Len(items) + 1
    /\ SubSeq(items', 1, Len(items)) = items
    /\ ~items'[Len(items')].isDeleted
    /\ items'[Len(items')].assetCode = query'.itemData.assetCode

StoreDecimal4(x) == ToFixed4(x).tenThousandths

\* a variant of FindLog: the where clause has no date
FindLog_ByItem(table, itemId, date) ==
    LET found == { i \in 1..Len(table) : table[i].itemId = itemId }
    IN  IF found = {} THEN 0 ELSE CHOOSE i \in found : \A j \in found : i <= j

\* where: { itemId, date }: the id of the first row found, 0 for none
FindLog(table, itemId, date) ==
    LET found == { i \in 1..Len(table) : table[i].itemId = itemId /\ table[i].date = date }
    IN  IF found = {} THEN 0 ELSE CHOOSE i \in found : \A j \in found : i <= j

\* defaults: { itemId, date, value, profit, isDeleted: false }
LogDefaults(itemId, date, value, profit) ==
    [ itemId |-> itemId, date |-> date, value |-> StoreDecimal4(value),
      profit |-> StoreDecimal4(profit), isDeleted |-> FALSE ]

\* const [profitLog, created] = await ProfitLog.findOrCreate(...)
RecordFindOrCreate(itemId, date, value, profit) ==
    /\ pc = "idle"
    /\ query' = [call |-> "recordDailyProfit", itemId |-> itemId, date |-> date,
                 value |-> value, profit |-> profit]
    /\ LET id == FindLog(profitLogs, itemId, date)
       IN  IF id = 0
           THEN /\ profitLogs' = Append(profitLogs, LogDefaults(itemId, date, value, profit))
                /\ reqId' = Len(profitLogs) + 1
                /\ pc' = "done"
                /\ body' = Returned(Len(profitLogs) + 1)
           ELSE /\ profitLogs' = profitLogs
                /\ reqId' = id
                /\ pc' = "recordUpdate"
                /\ body' = None
    /\ UNCHANGED <<reqItems, locals>>
    /\ UNCHANGED histVars
    /\ UNCHANGED <<portfolios, items, assets, logs, serviceAssets, authVars>>

\* if (!created) await profitLog.update({ value, profit }); return profitLog
RecordUpdate ==
    /\ pc = "recordUpdate"
    /\ profitLogs' = [profitLogs EXCEPT ![reqId] =
                        [@ EXCEPT !.value = StoreDecimal4(query.value),
                                  !.profit = StoreDecimal4(query.profit)]]
    /\ pc' = "done"
    /\ body' = Returned(reqId)
    /\ UNCHANGED <<reqId, reqItems, locals, query>>
    /\ UNCHANGED histVars
    /\ UNCHANGED <<portfolios, items, assets, logs, serviceAssets, authVars>>

\* the values and profits of a day: 100 and 10, 0.125 and -10, 100 and -10
ProfitInputs ==
    { [value |-> Num(100), profit |-> Num(10)],
      [value |-> Norm(1, 8), profit |-> Num(0 - 10)],
      [value |-> Num(100), profit |-> Num(0 - 10)] }

\* one transaction of each of two assets, dated in the tables that give
\* every log an item
InitProfit ==
    /\ portfolios = <<PortfolioRow(1)>>
    /\ items = << NewItem(1, "A", "buy", Trade10), NewItem(1, "B", "buy", Trade10) >>
    /\ assets = << >>
    /\ logs = << >>
    /\ serviceAssets = << ServiceAsset("A", 120000), ServiceAsset("B", 150000) >>
    /\ profitLogs = << >>
    /\ NoUsers
    /\ query = None
    /\ IdleRequest
    /\ NoHistory

NextProfit ==
    \/ \E itemId \in {1, 2}, day \in {10, 20}, p \in ProfitInputs :
          RecordFindOrCreate(itemId, LogDate(ThisMonth, day), p.value, p.profit)
    \/ RecordUpdate
    \/ ServiceReturn

SpecProfit == InitProfit /\ [][NextProfit]_vars

(***************************************************************************)
(* C28: after any sequence of recordDailyProfit calls there is at most one *)
(* profit log for each (itemId, date) pair, and it holds the value and     *)
(* profit of the most recent call for that pair; repeating a call with the *)
(* same arguments changes nothing.                                         *)
(***************************************************************************)
\* the logs of a pair
LogsOfPair(table, itemId, date) ==
    { i \in 1..Len(table) : table[i].itemId = itemId /\ table[i].date = date }

\* this step ends a call of recordDailyProfit
RecordAnswered ==
    pc \in {"idle", "recordUpdate"} /\ pc' = "done" /\ query'.call = "recordDailyProfit"

\* the table but for the logs of a pair
OtherLogs(table, itemId, date) ==
    SelectSeq(table, LAMBDA r : ~(r.itemId = itemId /\ r.date = date))

MaxClock == 2

\* jwt.sign(..., { expiresIn: '1h' }): two half hours
ExpiresIn == 2

\* user.token of a user who never logged in
NoToken == [id |-> 0, username |-> "", role |-> "", iat |-> 0, signed |-> FALSE]

\* jwt.sign({ id, username, role }, secret, { expiresIn: '1h' }): the same
\* payload signed at the same time is the same token
JwtSign(id, user, now) ==
    [id |-> id, username |-> user.username, role |-> user.role, iat |-> now, signed |-> TRUE]

\* jwt.verify(token, secret) does not throw
Verifies(token, now) == token.signed /\ now < token.iat + ExpiresIn

\* bcrypt.hash(password, 10) and bcrypt.compare(password, hash)
Hash(password) == <<"bcrypt", password>>

Compare(password, hashed) == hashed = Hash(password)

\* User.findOne({ where: { username } }): the id, 0 for null
FindUser(table, username) ==
    IF \E i \in 1..Len(table) : table[i].username = username
    THEN CHOOSE i \in 1..Len(table) : table[i].username = username
    ELSE 0

\* the frame of a registration or a login
UsersWritten ==
    /\ UNCHANGED <<portfolios, items, assets, logs, serviceVars>>
    /\ UNCHANGED reqVars
    /\ UNCHANGED histVars

\* POST /api/users/register with { username, password, role }, answered 201
Register(username, password, role) ==
    /\ FindUser(users, username) = 0
    /\ users' = Append(users, [ username |-> username, password |-> Hash(password),
                                role |-> role, token |-> NoToken ])
    /\ issued' = [issued EXCEPT !.last = Append(@, NoToken)]
    /\ clock' = clock
    /\ UsersWritten

\* POST /api/users/login with the credentials of a user, answered with the
\* token
Login(username, password) ==
    LET id == FindUser(users, username)
    IN  /\ id # 0
        /\ Compare(password, users[id].password)
        /\ LET token == JwtSign(id, users[id], clock)
           IN  /\ users' = [users EXCEPT ![id].token = token]
               /\ issued' = [ all |-> issued.all \cup {token},
                              last |-> [issued.last EXCEPT ![id] = token] ]
        /\ clock' = clock
        /\ UsersWritten

\* half an hour passes
Tick ==
    /\ clock < MaxClock
    /\ clock' = clock + 1
    /\ UNCHANGED <<users, issued>>
    /\ UsersWritten

\* the Authorization header: absent, of another scheme, or 'Bearer <token>'
NoHeader == [scheme |-> "", token |-> NoToken]

Bearer(token) == [scheme |-> "Bearer", token |-> token]

\* a token signed with another secret that names user 1 as an admin
Forged == [id |-> 1, username |-> "root", role |-> "admin", iat |-> 0, signed |-> FALSE]

Status(code, text) == [status |-> code, message |-> text]

\* User.findByPk(id): the id when the row exists, 0 for null
FindUserByPk(table, id) == IF id \in 1..Len(table) THEN id ELSE 0

\* a variant of TokenMatches: any token that verifies is accepted
TokenMatches_Any(user, token) == TRUE

\* !(user.token !== token)
TokenMatches(user, token) == user.token = token

\* !(ctx.state.user?.role !== 'admin')
IsAdmin(user, token) == user.role = "admin"

\* requireAuth up to jwt.verify, for a request of `route` with the header,
\* ctx.params.id and the role of the body
AuthVerify(route, header, id, role) ==
    /\ pc = "idle"
    /\ query' = [route |-> route, header |-> header, id |-> id, role |-> role]
    /\ IF header.scheme # "Bearer"
       THEN /\ pc' = "done"
            /\ body' = Status(401, "Authentication required")
       ELSE IF ~Verifies(header.token, clock)
       THEN /\ pc' = "done"
            /\ body' = Status(401, "Token expired or invalid, please log in again")
       ELSE /\ pc' = "authFindUser"
            /\ body' = None
    /\ locals' = NoLocals
    /\ UNCHANGED <<reqId, reqItems>>
    /\ UNCHANGED histVars
    /\ UNCHANGED storeVars

\* const user = await User.findByPk(decoded.id), the comparison of the
\* tokens, next(), adminOnly for the route it guards, and the handler up to
\* its query
AuthFindUser ==
    /\ pc = "authFindUser"
    /\ LET token == query.header.token
           uid == FindUserByPk(users, token.id)
       IN  IF uid = 0 \/ ~TokenMatches(users[uid], token)
           THEN /\ pc' = "done"
                /\ body' = Status(401, "Invalid or expired token, please log in again")
                /\ locals' = locals
           ELSE /\ locals' = [assetMap |-> << >>, userId |-> uid, user |-> users[uid]]
                /\ IF query.route = "GET /api/users/:id"
                   THEN pc' = "getUser" /\ body' = None
                   ELSE IF ~IsAdmin(users[uid], token)
                   THEN pc' = "done" /\ body' = Status(403, "Admin access only")
                   ELSE IF query.role \notin {"admin", "user"}
                   THEN pc' = "done" /\ body' = Status(400, "Invalid role")
                   ELSE pc' = "roleFindUser" /\ body' = None
    /\ UNCHANGED <<reqId, reqItems, query>>
    /\ UNCHANGED histVars
    /\ UNCHANGED storeVars

\* GET /api/users/:id: const user = await User.findByPk(ctx.params.id, ...)
GetUser ==
    /\ pc = "getUser"
    /\ LET id == FindUserByPk(users, query.id)
       IN  body' = IF id = 0 THEN Status(404, "User not found")
                   ELSE [ status |-> 200, id |-> id, username |-> users[id].username,
                          role |-> users[id].role ]
    /\ pc' = "done"
    /\ UNCHANGED <<reqId, reqItems, locals, query>>
    /\ UNCHANGED histVars
    /\ UNCHANGED storeVars

\* POST /api/users/:id/role: const user = await User.findByPk(ctx.params.id)
RoleFindUser ==
    /\ pc = "roleFindUser"
    /\ IF FindUserByPk(users, query.id) = 0
       THEN pc' = "done" /\ body' = Status(404, "User not found")
       ELSE pc' = "roleSave" /\ body' = None
    /\ UNCHANGED <<reqId, reqItems, locals, query>>
    /\ UNCHANGED histVars
    /\ UNCHANGED storeVars

\* user.role = role; await user.save()
RoleSave ==
    /\ pc = "roleSave"
    /\ users' = [users EXCEPT ![query.id].role = query.role]
    /\ body' = [ status |-> 200, id |-> query.id, username |-> users[query.id].username,
                 role |-> query.role ]
    /\ pc' = "done"
    /\ UNCHANGED <<reqId, reqItems, locals, query>>
    /\ UNCHANGED histVars
    /\ UNCHANGED <<portfolios, items, assets, logs, serviceVars, clock, issued>>

\* the response has been sent
UserRequestClose ==
    /\ pc = "done"
    /\ pc' = "idle"
    /\ body' = None
    /\ locals' = NoLocals
    /\ query' = None
    /\ UNCHANGED <<reqId, reqItems>>
    /\ UNCHANGED histVars
    /\ UNCHANGED storeVars

\* the server starts with one administrator
InitUsers ==
    /\ portfolios = << >>
    /\ items = << >>
    /\ assets = << >>
    /\ logs = << >>
    /\ NoService
    /\ users = << [ username |-> "root", password |-> Hash("r00t"), role |-> "admin",
                    token |-> NoToken ] >>
    /\ clock = 0
    /\ issued = [all |-> {}, last |-> <<NoToken>>]
    /\ query = None
    /\ IdleRequest
    /\ NoHistory

\* the headers a client can send: none, another scheme, a forged token, or
\* a token that a login answered with
Headers == {NoHeader, [scheme |-> "Basic", token |-> NoToken], Bearer(Forged)}
           \cup { Bearer(token) : token \in issued.all }

\* the requests of the guarded routes: user 1 is looked up, user 2 (who
\* may not exist) is made an admin or given a role that is not one, and
\* user 1 is made a user
GuardedRequests ==
    { [route |-> "GET /api/users/:id", id |-> 1, role |-> ""],
      [route |-> "POST /api/users/:id/role", id |-> 2, role |-> "admin"],
      [route |-> "POST /api/users/:id/role", id |-> 2, role |-> "owner"],
      [route |-> "POST /api/users/:id/role", id |-> 1, role |-> "user"] }

NextUsers ==
    \/ \E role \in {"user", "admin"} : Register("ann", "pw", role)
    \/ \E username \in {"root", "ann"} :
          Login(username, IF username = "root" THEN "r00t" ELSE "pw")
    \/ Tick
    \/ \E header \in Headers, req \in GuardedRequests :
          AuthVerify(req.route, header, req.id, req.role)
    \/ AuthFindUser
    \/ GetUser
    \/ RoleFindUser
    \/ RoleSave
    \/ UserRequestClose

SpecUsers == InitUsers /\ [][NextUsers]_vars

(***************************************************************************)
(* C25: requireAuth lets a request through to the protected handler only   *)
(* if the Bearer token verifies and is equal to the token currently stored *)
(* for that user; hence after any sequence of logins only the most         *)
(* recently issued token of a user is accepted, every earlier token of     *)
(* that user is answered with 401, and the protected handler is not run    *)
(* for it.                                                                 *)
(***************************************************************************)
\* where a request is once requireAuth has called next()
PastAuth == {"getUser", "roleFindUser", "roleSave"}

\* this step is requireAuth calling next(): adminOnly or the handler runs
LetThrough ==
    pc = "authFindUser" /\ pc' # pc /\ ~(pc' = "done" /\ body'.status = 401)

\* the token of the request in progress
TokenOfRequest == query.header.token

C25_OnlyLatestToken ==
    [][ /\ (pc' \in PastAuth /\ pc \notin PastAuth) => LetThrough
        /\ (pc' = "authFindUser" /\ pc # "authFindUser") =>
              /\ query'.header.scheme = "Bearer"
              /\ Verifies(query'.header.token, clock)
        /\ LetThrough =>
              /\ TokenOfRequest.signed
              /\ TokenOfRequest.id \in 1..Len(users)
              /\ users[TokenOfRequest.id].token = TokenOfRequest
              /\ issued.last[TokenOfRequest.id] = TokenOfRequest
        /\ ( /\ pc = "authFindUser" /\ pc' # pc
             /\ TokenOfRequest \in issued.all
             /\ TokenOfRequest # issued.last[TokenOfRequest.id] ) =>
              pc' = "done" /\ body'.status = 401 ]_vars

\* ann logged in at 0:00 and again at 0:30; a request made with her first
\* token, which has not expired, is answered 401
C25_Witness ==
    /\ pc = "done"
    /\ body.status = 401
    /\ query.route = "GET /api/users/:id"
    /\ query.header.scheme = "Bearer"
    /\ TokenOfRequest \in issued.all
    /\ TokenOfRequest.id = 2 /\ TokenOfRequest.iat = 0
    /\ clock = 1
    /\ Verifies(TokenOfRequest, clock)
    /\ users[2].token.iat = 1
    /\ issued.last[2] = users[2].token

(***************************************************************************)
(* C26: admin rights cannot be self-granted: in every reachable state a    *)
(* user has role 'admin' only if that role was set by a request that       *)
(* itself passed requireAuth and adminOnly (POST /api/users/:id/role by an *)
(* existing admin) or was present initially, so no sequence of requests by *)
(* clients without admin credentials reaches a handler guarded by          *)
(* adminOnly.                                                              *)
(***************************************************************************)
\* this step is the save of POST /api/users/:id/role, which requireAuth and
\* adminOnly let through on behalf of the admin in locals
SavedByAdmin(id) ==
    /\ pc = "roleSave"
    /\ query.id = id
    /\ locals.user.role = "admin"

C26_AdminNotSelfGranted ==
    [][ \A id \in 1..Len(users') :
          users'[id].role = "admin" =>
              \/ id \in 1..Len(users) /\ users[id].role = "admin"
              \/ SavedByAdmin(id) ]_vars

(***************************************************************************)
(* The portfolios router (src/routes/portfolio.js): the routes in the      *)
(* order they are registered, the dispatch of a request to the first route *)
(* that matches it (no handler calls next), and the handlers of the        *)
(* portfolios themselves.  The write routes are requested by a logged-in   *)
(* user.                                                                   *)
(***************************************************************************)
\* a segment of a route path: a literal, or a parameter
Lit(name) == [param |-> FALSE, name |-> name]

Param(name) == [param |-> TRUE, name |-> name]

Route(method, path, handler) == [method |-> method, path |-> path, handler |-> handler]

\* router.get / router.post, in the order of the calls
Routes ==
    << Route("GET", << >>, "list"),
       Route("GET", <<Param("id")>>, "byId"),
       Route("GET", <<Lit("user"), Param("userId")>>, "byUser"),
       Route("POST", <<Lit("create")>>, "create"),
       Route("POST", <<Lit("update"), Param("id")>>, "update"),
       Route("POST", <<Lit("delete"), Param("id")>>, "delete"),
       Route("GET", <<Lit("search")>>, "search"),
       Route("GET", <<Param("id"), Lit("stats")>>, "stats"),
       Route("GET", <<Param("id"), Lit("summary")>>, "summary"),
       Route("GET", <<Param("userId"), Lit("returns")>>, "returns"),
       Route("GET", <<Param("userId"), Lit("asset-returns")>>, "assetReturns"),
       Route("GET", <<Param("userId"), Lit("trade-records")>>, "tradeRecords") >>

\* the path of a request matches the path of a route
MatchesRoute(route, method, path) ==
    /\ route.method = method
    /\ Len(route.path) = Len(path)
    /\ \A i \in 1..Len(path) : route.path[i].param \/ route.path[i].name = path[i]

\* the route that serves a request: the first registered that matches, 0
\* when none does
Dispatch(method, path) ==
    LET matching == { k \in 1..Len(Routes) : MatchesRoute(Routes[k], method, path) }
    IN  IF matching = {} THEN 0 ELSE CHOOSE k \in matching : \A j \in matching : k <= j

\* the segments that are the text of a row id
IdTexts == <<"1", "2", "3">>

\* where: { id: <text> }: the row whose id the text denotes, 0 when the text
\* denotes none
ParsePk(table, text) ==
    IF \E k \in 1..Len(IdTexts) : IdTexts[k] = text /\ k <= Len(table)
    THEN CHOOSE k \in 1..Len(IdTexts) : IdTexts[k] = text
    ELSE 0

\* order: [['createdAt', 'DESC']]: the rows found among the first k, the
\* latest first
RECURSIVE LatestFirst(_, _)
LatestFirst(found, k) ==
    IF k = 0 THEN << >>
    ELSE IF k \in found
         THEN <<k>> \o LatestFirst(found, k - 1)
         ELSE LatestFirst(found, k - 1)

\* const { page = 1, pageSize = 10, userId, name } = ctx.query
DefaultPage == 1

DefaultPageSize == 10

\* limit and offset of findAndCountAll
Page(ids, page, pageSize) ==
    SubSeq(ids, (page - 1) * pageSize + 1,
           IF page * pageSize < Len(ids) THEN page * pageSize ELSE Len(ids))

\* the value of a path parameter of the route that serves the request
ParamOf(route, path, name) ==
    path[CHOOSE i \in 1..Len(path) : route.path[i].param /\ route.path[i].name = name]

\* where: { isDeleted: false }: the ids of the rows found
NotDeleted(table) == { id \in 1..Len(table) : ~table[id].isDeleted }

\* Portfolio.create(values): userId and name are allowNull: false
ValidPortfolio(values) == {"userId", "name"} \subseteq DOMAIN values

\* the row Portfolio.create inserts: the attributes given, the defaults of
\* the others
NewPortfolio(id, values) ==
    [ id |-> id, userId |-> values.userId, name |-> values.name,
      isDeleted |-> IF "isDeleted" \in DOMAIN values THEN values.isDeleted ELSE FALSE ]

\* Portfolio.update(values, { where: { id } }): every attribute given is
\* written
UpdatePortfolio(table, id, values) ==
    [ table EXCEPT ![id] =
        [ f \in DOMAIN table[id] |-> IF f \in DOMAIN values THEN values[f] ELSE table[id][f] ] ]

\* the count Portfolio.update answers with: the rows matched or the rows
\* changed, as the database connection reports them
UpdatedRowsCounts(before, after, id) ==
    IF id = 0 THEN {0}
    ELSE IF before[id] = after[id] THEN {0, 1}
    ELSE {1}

\* the ids of findAll without an order: in the order of the table
TableOrder(latestFirst) ==
    [ i \in 1..Len(latestFirst) |-> latestFirst[Len(latestFirst) + 1 - i] ]

\* what a handler of the router leaves: the table and the response
Handled(table, response) == [table |-> table, response |-> response]

\* the handlers of the portfolios; count is the count of a write
Handle(handler, route, path, values, table, count) ==
    CASE handler = "list" ->
            Handled(table, [ status |-> 200,
                             portfolios |->
                                TableOrder(LatestFirst(NotDeleted(table), Len(table))) ])
      [] handler = "byId" ->
            LET id == ParsePk(table, ParamOf(route, path, "id"))
            IN  IF id = 0 THEN Handled(table, Status(404, "Portfolio not found"))
                ELSE Handled(table, [status |-> 200, portfolio |-> table[id]])
      [] handler = "byUser" ->
            LET userId == ParamOf(route, path, "userId")
                OfUser == { id \in NotDeleted(table) :
                               /\ table[id].userId \in 1..Len(IdTexts)
                               /\ IdTexts[table[id].userId] = userId }
            IN  Handled(table, [ status |-> 200,
                                 portfolios |-> LatestFirst(OfUser, Len(table)) ])
      [] handler = "search" ->
            LET found == LatestFirst(NotDeleted(table), Len(table))
            IN  Handled(table, [ status |-> 200, total |-> Len(found),
                                 page |-> DefaultPage, pageSize |-> DefaultPageSize,
                                 items |-> Page(found, DefaultPage, DefaultPageSize) ])
      [] handler = "create" ->
            IF ~ValidPortfolio(values)
            THEN Handled(table, Status(500, "Internal Server Error"))
            ELSE LET row == NewPortfolio(Len(table) + 1, values)
                 IN  Handled(Append(table, row), [status |-> 200, portfolio |-> row])
      [] handler = "update" ->
            LET id == ParsePk(table, ParamOf(route, path, "id"))
                after == IF id = 0 THEN table ELSE UpdatePortfolio(table, id, values)
            IN  IF count = 0 THEN Handled(after, Status(404, "Portfolio not found"))
                ELSE Handled(after, [status |-> 200, portfolio |-> after[id]])
      [] handler = "delete" ->
            LET id == ParsePk(table, ParamOf(route, path, "id"))
                after == IF id = 0 THEN table
                         ELSE UpdatePortfolio(table, id, [isDeleted |-> TRUE])
            IN  IF count = 0 THEN Handled(after, Status(404, "Portfolio not found"))
                ELSE Handled(after, [ status |-> 200, message |-> "Portfolio logically deleted",
                                      portfolio |-> after[id] ])

\* the requests of the model; the write routes run behind requireAuth, and
\* authorised says whether requireAuth lets the request through
Request(method, path, authorised, values) ==
    [method |-> method, path |-> path, authorised |-> authorised, values |-> values]

NoValues == [absent |-> TRUE]

PortfolioRequests ==
    { Request("GET", << >>, FALSE, NoValues),
      Request("GET", <<"1">>, FALSE, NoValues),
      Request("GET", <<"2">>, FALSE, NoValues),
      Request("GET", <<"search">>, FALSE, NoValues),
      Request("GET", <<"user", "1">>, FALSE, NoValues),
      Request("GET", <<"user", "search">>, FALSE, NoValues),
      Request("POST", <<"search">>, TRUE, NoValues),
      Request("POST", <<"create">>, TRUE, [userId |-> 1, name |-> "P"]),
      Request("POST", <<"create">>, TRUE, [userId |-> 2, name |-> "P"]),
      Request("POST", <<"create">>, TRUE, [userId |-> 1]),
      Request("POST", <<"create">>, FALSE, [userId |-> 1, name |-> "P"]),
      Request("POST", <<"update", "1">>, TRUE, [name |-> "Q"]),
      Request("POST", <<"update", "1">>, TRUE, [isDeleted |-> FALSE]),
      Request("POST", <<"update", "search">>, TRUE, [name |-> "Q"]),
      Request("POST", <<"delete", "1">>, TRUE, NoValues),
      Request("POST", <<"delete", "2">>, TRUE, NoValues),
      Request("POST", <<"delete", "1">>, FALSE, NoValues) }

\* the routes registered with requireAuth before the handler
Guarded == {"create", "update", "delete"}

\* a request to the router: the first route that matches serves it
PortfolioRequest(request) ==
    /\ pc = "idle"
    /\ Len(portfolios) < MaxPortfolios \/ request.path # <<"create">>
    /\ pc' = "done"
    /\ query' = request
    /\ LET k == Dispatch(request.method, request.path)
       IN  IF k = 0
           THEN /\ body' = Status(404, "Not Found")
                /\ portfolios' = portfolios
           ELSE IF Routes[k].handler \in Guarded /\ ~request.authorised
           THEN /\ body' = Status(401, "Authentication required")
                /\ portfolios' = portfolios
           ELSE LET id == IF Routes[k].handler \in {"update", "delete"}
                          THEN ParsePk(portfolios, ParamOf(Routes[k], request.path, "id"))
                          ELSE 0
                    written == Handle(Routes[k].handler, Routes[k], request.path,
                                      request.values, portfolios, 1).table
                IN  \E count \in UpdatedRowsCounts(portfolios, written, id) :
                       LET handled == Handle(Routes[k].handler, Routes[k], request.path,
                                             request.values, portfolios, count)
                       IN  /\ body' = handled.response
                           /\ portfolios' = handled.table
    /\ UNCHANGED <<items, assets, logs, serviceVars, authVars, reqId, reqItems, locals, histVars>>

\* two portfolios of two users, none deleted
InitPortfolios ==
    /\ portfolios \in { << >>, <<NewPortfolio(1, [userId |-> 1, name |-> "P"])>> }
    /\ items = << >>
    /\ assets = << >>
    /\ logs = << >>
    /\ NoService
    /\ NoUsers
    /\ IdleRequest
    /\ query = None
    /\ NoHistory

NextPortfolios ==
    \/ \E request \in PortfolioRequests : PortfolioRequest(request)
    \/ UserRequestClose

SpecPortfolios == InitPortfolios /\ [][NextPortfolios]_vars

(***************************************************************************)
(* C27: soft deletion of a portfolio is permanent.                         *)
(***************************************************************************)
\* the ids a list, by-user or search response carries
ListedIn(response) ==
    IF "portfolios" \in DOMAIN response
    THEN { response.portfolios[i] : i \in 1..Len(response.portfolios) }
    ELSE IF "items" \in DOMAIN response
    THEN { response.items[i] : i \in 1..Len(response.items) }
    ELSE {}

\* C27: once POST /api/portfolios/delete/:id has set isDeleted of a portfolio,
\* no request to create, update or delete makes the portfolio non-deleted
\* again, and no list, by-user or search response carries it.
C27_DeletionPermanent ==
    [][ \A id \in 1..Len(portfolios) :
           portfolios[id].isDeleted =>
              /\ portfolios'[id].isDeleted
              /\ id \notin ListedIn(body') ]_vars

(***************************************************************************)
(* C30: GET /api/portfolios/search is served by the search handler.        *)
(***************************************************************************)
\* the request answered is GET /api/portfolios/search
SearchAnswered ==
    /\ pc = "done"
    /\ query.method = "GET"
    /\ query.path = <<"search">>

\* C30: a GET request to /api/portfolios/search is answered by the search
\* handler with {total, page, pageSize, items}, not by the route '/:id' with
\* 404.
C30_SearchServed ==
    SearchAnswered =>
       /\ body.status = 200
       /\ DOMAIN body = {"status", "total", "page", "pageSize", "items"}
====
